---- MODULE Spec2Model ----
(***************************************************************************)
(* Output layer of the iota-sdk block types: the Basic, Delegation and     *)
(* Foundry output builders, their binary packing, the rent cost, and the   *)
(* foundry state transition verifier                                       *)
(* (sdk/src/types/block/output/{basic,delegation,foundry}.rs).             *)
(*                                                                         *)
(* Two specifications share the module:                                    *)
(*   Spec          a builder is driven by setter calls, finished, packed   *)
(*                 and unpacked;                                           *)
(*   SpecVerifier  one call of FoundryOutput's StateTransitionVerifier     *)
(*                 (creation / transition / destruction) on inputs drawn   *)
(*                 from bounded sets.                                      *)
(***************************************************************************)
EXTENDS Integers, Sequences, FiniteSets, TLC

VARIABLES
    \* ---- SpecVerifier: one call of the state transition verifier
    op,             \* "idle", "creation", "transition" or "destruction"
    current_state,  \* the consumed FoundryOutput (transition, destruction)
    next_state,     \* the created FoundryOutput (creation, transition)
    context,        \* the ValidationContext of the transaction
    result,         \* "Ok" or the StateTransitionError variant
    \* ---- Spec: the life of one output builder
    self,           \* the fields of the BasicOutputBuilder, FoundryOutputBuilder
                    \* or DelegationOutputBuilder
    stage,          \* "building", "finished", "packed" or "unpacked"
    given_params,   \* the ValidationParams given to finish_with_params;
                    \* None when finish was called
    finished,       \* the Result of finish / finish_with_params
    packed_bytes,   \* the packed output
    verify,         \* the VERIFY flag of the unpacking
    unpacked,       \* the Result of the unpacking
    ledger,         \* the foundry on the ledger and the circulating supply of
                    \* its TokenId, while a sequence of transactions is followed
    \* ---- SpecUnlock: one SignatureUnlock, packed and unpacked
    unlock          \* the SignatureUnlock at hand, the bytes packed or received
                    \* and the Result of unpack_verified

verifierVars == <<op, current_state, next_state, context, result, ledger>>

builderVars == <<self, stage, given_params, finished, packed_bytes, verify, unpacked>>

vars == <<op, current_state, next_state, context, result,
          self, stage, given_params, finished, packed_bytes, verify, unpacked, ledger,
          unlock>>

(***************************************************************************)
(* Bounds                                                                  *)
(***************************************************************************)
\* Largest native token quantity (minted, melted, balances) that is drawn.
MaxTokens == 2

(***************************************************************************)
(* Values                                                                  *)
(***************************************************************************)
\* Option::None, of any element or output; a record, as every Some value is.
None == [kind |-> "None"]

\* Identifiers of the aliases that can own a foundry.
AliasIds == {1, 2}

AliasAddress(alias_id) == [kind |-> "Alias", id |-> alias_id]

\* ImmutableAliasAddressUnlockCondition::new(alias_address)
ImmutableAliasAddressUnlockCondition(alias_address) ==
    [kind |-> "ImmutableAliasAddress", address |-> alias_address,
     amount |-> 0, timestamp |-> 0]

MetadataFeature(data) == [kind |-> "Metadata", address |-> None, data |-> data]

\* SimpleTokenScheme; the only TokenScheme variant.
SimpleTokenScheme(minted, melted, maximum) ==
    [kind |-> "Simple", minted_tokens |-> minted, melted_tokens |-> melted,
     maximum_supply |-> maximum]

\* The token schemes a foundry output can hold: melted_tokens never exceeds
\* minted_tokens (the syntactic rule destruction relies on).
TokenSchemes ==
    { ts \in { SimpleTokenScheme(mi, me, mx) :
                 mi \in 0..MaxTokens, me \in 0..MaxTokens,
                 mx \in {MaxTokens, MaxTokens + 1} } :
        ts.melted_tokens <= ts.minted_tokens }

\* The first element of a sorted collection that has the given kind, or None.
ElementOfKind(elements, kind) ==
    IF \E i \in DOMAIN elements : elements[i].kind = kind
    THEN elements[CHOOSE i \in DOMAIN elements : elements[i].kind = kind]
    ELSE None

\* UnlockConditions::immutable_alias_address
immutable_alias_address(unlock_conditions) ==
    ElementOfKind(unlock_conditions, "ImmutableAliasAddress")

\* FoundryOutput::alias_address; the unwrap panics when the condition is missing.
alias_address(output) ==
    LET unlock_condition == immutable_alias_address(output.unlock_conditions)
    IN  IF unlock_condition = None THEN [kind |-> "panic"] ELSE unlock_condition.address

\* FoundryId::build: the hash of its three arguments, kept as the triple itself
\* (an injective stand-in for the hash).
FoundryId_build(address, serial_number, token_scheme_kind) ==
    <<"FoundryId", address, serial_number, token_scheme_kind>>

\* FoundryOutput::id
id(output) ==
    FoundryId_build(alias_address(output), output.serial_number, output.token_scheme.kind)

\* TokenId::from(FoundryId)
TokenId_from(foundry_id) == <<"TokenId", foundry_id>>

\* FoundryOutput::token_id
token_id(output) == TokenId_from(id(output))

\* BTreeMap::get(key).copied().unwrap_or_default() on a map TokenId -> U256
get_or_default(map, key) == IF key \in DOMAIN map THEN map[key] ELSE 0

\* BTreeMap::contains_key
contains_key(map, key) == key \in DOMAIN map

\* BTreeMap::get on a chain map: the output, or None
chain_get(map, key) == IF key \in DOMAIN map THEN map[key] ELSE None

(***************************************************************************)
(* Results                                                                 *)
(***************************************************************************)
\* Result::Ok(value) and Result::Err(error)
Ok(value) == [ok |-> TRUE, value |-> value, error |-> "None"]

Err(error) == [ok |-> FALSE, value |-> None, error |-> error]

\* The outcome of unpacking one value: the value and the bytes left unread.
Unpacked(value, rest) == [ok |-> TRUE, value |-> value, error |-> "None", rest |-> rest]

UnpackErr(error) == [ok |-> FALSE, value |-> None, error |-> error, rest |-> <<>>]

\* The ? operator on the outcome of unpacking: an error is returned at once,
\* a value is handed to the rest of the function.
Try(unpacking, Continue(_)) == IF unpacking.ok THEN Continue(unpacking) ELSE unpacking

\* A verification that precedes the rest of the function: its error is returned
\* at once.
Verified(verification, continuation) ==
    IF verification = "Ok" THEN continuation ELSE UnpackErr(verification)

(***************************************************************************)
(* Binary encoding of the primitive values                                 *)
(***************************************************************************)
RECURSIVE pack_int(_, _)
\* u8, u16, u32, u64, U256 and the 32-byte identifiers ::pack: the little-endian
\* bytes of n in a field of 1, 2, 4, 8 or 32 bytes.
pack_int(n, width) ==
    IF width = 0 THEN <<>>
    ELSE <<n % 256>> \o pack_int(n \div 256, width - 1)

RECURSIVE FromLittleEndian(_)
FromLittleEndian(bytes) ==
    IF bytes = <<>> THEN 0
    ELSE Head(bytes) + 256 * FromLittleEndian(Tail(bytes))

\* Unpacking an integer of the given width; a short input is an error.
unpack_int(bytes, width) ==
    IF Len(bytes) < width THEN UnpackErr("UnexpectedEOF")
    ELSE Unpacked(FromLittleEndian(SubSeq(bytes, 1, width)),
                  SubSeq(bytes, width + 1, Len(bytes)))

RECURSIVE Flatten(_)
\* The concatenation of a sequence of byte strings.
Flatten(parts) ==
    IF parts = <<>> THEN <<>> ELSE Head(parts) \o Flatten(Tail(parts))

RECURSIVE BytesLess(_, _)
\* Lexicographic order of byte strings (the order of fixed-width identifiers).
BytesLess(a, b) ==
    IF b = <<>> THEN FALSE
    ELSE IF a = <<>> THEN TRUE
    ELSE IF Head(a) # Head(b) THEN Head(a) < Head(b)
    ELSE BytesLess(Tail(a), Tail(b))

(***************************************************************************)
(* Addresses, unlock conditions, features, native tokens, token schemes    *)
(***************************************************************************)
Ed25519Address(hash) == [kind |-> "Ed25519", id |-> hash]

AddressKind == [Ed25519 |-> 0, Alias |-> 8]

\* Address::pack: the kind byte and the identifier (one byte stands for the hash).
Address_pack(address) == <<AddressKind[address.kind], address.id>>

Address_unpack(bytes) ==
    IF Len(bytes) < 1 THEN UnpackErr("UnexpectedEOF")
    ELSE IF Head(bytes) \notin {AddressKind.Ed25519, AddressKind.Alias}
    THEN UnpackErr("InvalidAddressKind")
    ELSE IF Len(bytes) < 2 THEN UnpackErr("UnexpectedEOF")
    ELSE Unpacked([kind |-> IF Head(bytes) = AddressKind.Ed25519 THEN "Ed25519" ELSE "Alias",
                   id |-> bytes[2]],
                  SubSeq(bytes, 2 + 1, Len(bytes)))

\* The unlock conditions; every record has the same fields, unused ones hold
\* None or 0.
AddressUnlockCondition(address) ==
    [kind |-> "Address", address |-> address, amount |-> 0, timestamp |-> 0]

StorageDepositReturnUnlockCondition(return_address, amount) ==
    [kind |-> "StorageDepositReturn", address |-> return_address,
     amount |-> amount, timestamp |-> 0]

TimelockUnlockCondition(timestamp) ==
    [kind |-> "Timelock", address |-> None, amount |-> 0, timestamp |-> timestamp]

\* UnlockCondition::kind: the kind byte, which is also the order of the
\* conditions in a set.
UnlockConditionKind ==
    [Address |-> 0, StorageDepositReturn |-> 1, Timelock |-> 2, Expiration |-> 3,
     StateControllerAddress |-> 4, GovernorAddress |-> 5, ImmutableAliasAddress |-> 6]

UnlockCondition_pack(uc) ==
    <<UnlockConditionKind[uc.kind]>> \o
    CASE uc.kind = "StorageDepositReturn" -> Address_pack(uc.address) \o pack_int(uc.amount, 8)
      [] uc.kind = "Timelock" -> pack_int(uc.timestamp, 4)
      [] uc.kind = "Expiration" -> Address_pack(uc.address) \o pack_int(uc.timestamp, 4)
      [] OTHER -> Address_pack(uc.address)

UnlockCondition_unpack(bytes) ==
    IF Len(bytes) < 1 THEN UnpackErr("UnexpectedEOF")
    ELSE IF ~ \E k \in DOMAIN UnlockConditionKind : UnlockConditionKind[k] = Head(bytes)
    THEN UnpackErr("InvalidUnlockConditionKind")
    ELSE
    LET kind == CHOOSE k \in DOMAIN UnlockConditionKind : UnlockConditionKind[k] = Head(bytes)
        body == Tail(bytes)
        address == Address_unpack(body)
    IN  CASE kind = "Timelock" ->
               LET timestamp == unpack_int(body, 4)
               IN  IF ~timestamp.ok THEN timestamp
                   ELSE Unpacked(TimelockUnlockCondition(timestamp.value), timestamp.rest)
          [] kind = "StorageDepositReturn" ->
               LET amount == unpack_int(address.rest, 8)
               IN  IF ~address.ok THEN address
                   ELSE IF ~amount.ok THEN amount
                   ELSE Unpacked(StorageDepositReturnUnlockCondition(address.value, amount.value),
                                 amount.rest)
          [] kind = "Expiration" ->
               LET timestamp == unpack_int(address.rest, 4)
               IN  IF ~address.ok THEN address
                   ELSE IF ~timestamp.ok THEN timestamp
                   ELSE Unpacked([kind |-> "Expiration", address |-> address.value,
                                  amount |-> 0, timestamp |-> timestamp.value],
                                 timestamp.rest)
          [] OTHER ->
               IF ~address.ok THEN address
               ELSE Unpacked([kind |-> kind, address |-> address.value,
                              amount |-> 0, timestamp |-> 0],
                             address.rest)

\* The features; every record has the same fields.
SenderFeature(address) == [kind |-> "Sender", address |-> address, data |-> <<>>]

IssuerFeature(address) == [kind |-> "Issuer", address |-> address, data |-> <<>>]

\* Feature::kind: the kind byte, which is also the order of the features in a set.
FeatureKind == [Sender |-> 0, Issuer |-> 1, Metadata |-> 2, Tag |-> 3]

Feature_pack(feature) ==
    <<FeatureKind[feature.kind]>> \o
    CASE feature.kind = "Metadata" -> pack_int(Len(feature.data), 2) \o feature.data
      [] feature.kind = "Tag" -> pack_int(Len(feature.data), 1) \o feature.data
      [] OTHER -> Address_pack(feature.address)

Feature_unpack(bytes) ==
    IF Len(bytes) < 1 THEN UnpackErr("UnexpectedEOF")
    ELSE IF ~ \E k \in DOMAIN FeatureKind : FeatureKind[k] = Head(bytes)
    THEN UnpackErr("InvalidFeatureKind")
    ELSE
    LET kind == CHOOSE k \in DOMAIN FeatureKind : FeatureKind[k] = Head(bytes)
        body == Tail(bytes)
        address == Address_unpack(body)
        length == IF kind = "Metadata" THEN unpack_int(body, 2) ELSE unpack_int(body, 1)
    IN  IF kind \in {"Metadata", "Tag"}
        THEN IF ~length.ok THEN length
             ELSE IF Len(length.rest) < length.value THEN UnpackErr("UnexpectedEOF")
             ELSE Unpacked([kind |-> kind, address |-> None,
                            data |-> SubSeq(length.rest, 1, length.value)],
                           SubSeq(length.rest, length.value + 1, Len(length.rest)))
        ELSE IF ~address.ok THEN address
             ELSE Unpacked([kind |-> kind, address |-> address.value, data |-> <<>>],
                           address.rest)

\* NativeToken::new(token_id, amount)
NativeToken(tid, amount) == [token_id |-> tid, amount |-> amount]

\* TokenId::pack: the bytes of the foundry id it was made from, which are the
\* alias address, the serial number and the token scheme kind.
TokenId_pack(tid) == Address_pack(tid[2][2]) \o pack_int(tid[2][3], 4) \o <<0>>

TokenId_unpack(bytes) ==
    LET address == Address_unpack(bytes)
        serial_number == unpack_int(address.rest, 4)
        scheme_kind == unpack_int(serial_number.rest, 1)
    IN  IF ~address.ok THEN address
        ELSE IF ~serial_number.ok THEN serial_number
        ELSE IF ~scheme_kind.ok THEN scheme_kind
        ELSE Unpacked(TokenId_from(FoundryId_build(address.value, serial_number.value,
                          IF scheme_kind.value = 0 THEN "Simple" ELSE "Unknown")),
                      scheme_kind.rest)

NativeToken_pack(native_token) ==
    TokenId_pack(native_token.token_id) \o pack_int(native_token.amount, 32)

NativeToken_unpack(bytes, VERIFY) ==
    LET tid == TokenId_unpack(bytes)
        amount == unpack_int(tid.rest, 32)
    IN  IF ~tid.ok THEN tid
        ELSE IF ~amount.ok THEN amount
        ELSE IF VERIFY /\ amount.value = 0 THEN UnpackErr("NativeTokensNullAmount")
        ELSE Unpacked(NativeToken(tid.value, amount.value), amount.rest)

\* TokenScheme::pack: the kind byte and the three counters of the simple scheme.
TokenScheme_pack(token_scheme) ==
    <<0>> \o pack_int(token_scheme.minted_tokens, 32) \o pack_int(token_scheme.melted_tokens, 32)
          \o pack_int(token_scheme.maximum_supply, 32)

TokenScheme_unpack(bytes, VERIFY) ==
    LET kind == unpack_int(bytes, 1)
        minted == unpack_int(kind.rest, 32)
        melted == unpack_int(minted.rest, 32)
        maximum == unpack_int(melted.rest, 32)
    IN  IF ~kind.ok THEN kind
        ELSE IF kind.value # 0 THEN UnpackErr("InvalidTokenSchemeKind")
        ELSE IF ~minted.ok THEN minted
        ELSE IF ~melted.ok THEN melted
        ELSE IF ~maximum.ok THEN maximum
        ELSE IF VERIFY /\ (\/ maximum.value = 0
                           \/ melted.value > minted.value
                           \/ minted.value - melted.value > maximum.value)
        THEN UnpackErr("InvalidFoundryOutputSupply")
        ELSE Unpacked(SimpleTokenScheme(minted.value, melted.value, maximum.value),
                      maximum.rest)

(***************************************************************************)
(* Ordered sets of the builders and the sorted collections of the outputs  *)
(***************************************************************************)
\* The keys by which the elements of the builders' BTreeSets are ordered: an
\* unlock condition and a feature by its kind, a native token by its token id.
UnlockCondition_key(uc) == <<UnlockConditionKind[uc.kind]>>

Feature_key(feature) == <<FeatureKind[feature.kind]>>

NativeToken_key(native_token) == TokenId_pack(native_token.token_id)

\* BTreeSet::insert: an element whose key is already present is not inserted.
BTreeSet_insert(set, element, Key(_)) ==
    IF \E other \in set : Key(other) = Key(element) THEN set ELSE set \cup {element}

\* BTreeSet::replace: the element takes the place of the one with its key.
BTreeSet_replace(set, element, Key(_)) ==
    { other \in set : Key(other) # Key(element) } \cup {element}

\* The elements of a BTreeSet in ascending order of their keys.
BTreeSet_into_sorted(set, Key(_)) ==
    LET rank(element) == Cardinality({ other \in set : BytesLess(Key(other), Key(element)) })
    IN  [i \in 1..Cardinality(set) |-> CHOOSE element \in set : rank(element) = i - 1]

\* UnlockConditions::from_set, Features::from_set, NativeTokens::from_set
UnlockConditions_from_set(set) == BTreeSet_into_sorted(set, UnlockCondition_key)

Features_from_set(set) == BTreeSet_into_sorted(set, Feature_key)

NativeTokens_from_set(set) == BTreeSet_into_sorted(set, NativeToken_key)

\* A collection on the wire: the count in one byte, then the elements in order.
UnlockConditions_pack(unlock_conditions) ==
    pack_int(Len(unlock_conditions), 1)
        \o Flatten([i \in DOMAIN unlock_conditions |-> UnlockCondition_pack(unlock_conditions[i])])

Features_pack(features) ==
    pack_int(Len(features), 1) \o Flatten([i \in DOMAIN features |-> Feature_pack(features[i])])

NativeTokens_pack(native_tokens) ==
    pack_int(Len(native_tokens), 1)
        \o Flatten([i \in DOMAIN native_tokens |-> NativeToken_pack(native_tokens[i])])

RECURSIVE unpack_elements(_, _, _, _, _)
\* The given number of elements, one after the other, appended to those
\* already unpacked.
unpack_elements(type, bytes, count, VERIFY, elements) ==
    IF count = 0 THEN Unpacked(elements, bytes)
    ELSE Try(CASE type = "UnlockCondition" -> UnlockCondition_unpack(bytes)
               [] type = "Feature" -> Feature_unpack(bytes)
               [] type = "NativeToken" -> NativeToken_unpack(bytes, VERIFY),
             LAMBDA first :
                unpack_elements(type, first.rest, count - 1, VERIFY,
                                Append(elements, first.value)))

\* Whether the keys of the elements strictly ascend (sorted, no key twice).
UniqueSorted(elements, Key(_)) ==
    \A i \in 1..(Len(elements) - 1) : BytesLess(Key(elements[i]), Key(elements[i + 1]))

\* UnlockConditions::unpack; uniqueness and order are verified under VERIFY.
UnlockConditions_unpack(bytes, VERIFY, visitor) ==
    Try(unpack_int(bytes, 1), LAMBDA count :
    Try(unpack_elements("UnlockCondition", count.rest, count.value, VERIFY, <<>>),
        LAMBDA elements :
            IF VERIFY /\ ~UniqueSorted(elements.value, UnlockCondition_key)
            THEN UnpackErr("UnlockConditionsNotUniqueSorted")
            ELSE elements))

\* Features::unpack
Features_unpack(bytes, VERIFY) ==
    Try(unpack_int(bytes, 1), LAMBDA count :
    Try(unpack_elements("Feature", count.rest, count.value, VERIFY, <<>>),
        LAMBDA elements :
            IF VERIFY /\ ~UniqueSorted(elements.value, Feature_key)
            THEN UnpackErr("FeaturesNotUniqueSorted")
            ELSE elements))

\* NativeTokens::unpack
NativeTokens_unpack(bytes, VERIFY) ==
    Try(unpack_int(bytes, 1), LAMBDA count :
    Try(unpack_elements("NativeToken", count.rest, count.value, VERIFY, <<>>),
        LAMBDA elements :
            IF VERIFY /\ ~UniqueSorted(elements.value, NativeToken_key)
            THEN UnpackErr("NativeTokensNotUniqueSorted")
            ELSE elements))

\* UnlockConditions::address
UnlockConditions_address(unlock_conditions) == ElementOfKind(unlock_conditions, "Address")

(***************************************************************************)
(* Validation shared by the outputs                                        *)
(***************************************************************************)
\* verify_allowed_unlock_conditions: every kind present is in the allow-list.
verify_allowed_unlock_conditions(unlock_conditions, allowed_unlock_conditions) ==
    IF \E i \in DOMAIN unlock_conditions :
            unlock_conditions[i].kind \notin allowed_unlock_conditions
    THEN "DisallowedUnlockCondition"
    ELSE "Ok"

\* verify_allowed_features
verify_allowed_features(features, allowed_features) ==
    IF \E i \in DOMAIN features : features[i].kind \notin allowed_features
    THEN "DisallowedFeature"
    ELSE "Ok"

\* verify_output_amount: the amount may not exceed the token supply.
verify_output_amount(amount, token_supply) ==
    IF amount > token_supply THEN "InvalidOutputAmount" ELSE "Ok"

\* verify_output_amount_packable
verify_output_amount_packable(VERIFY, amount, protocol_parameters) ==
    IF VERIFY THEN verify_output_amount(amount, protocol_parameters.token_supply) ELSE "Ok"

(***************************************************************************)
(* Rent                                                                    *)
(***************************************************************************)
\* RentBuilder::data_field::<T>: the weighted size of a field of the given width.
data_field(rent_structure, width) == width * rent_structure.v_byte_factor_data

\* RentBuilder::packable_field: the weighted size of a value's packed form.
packable_field(rent_structure, packed) == Len(packed) * rent_structure.v_byte_factor_data

RECURSIVE weighted_field(_, _, _)
\* RentBuilder::weighted_field on a BTreeSet: the weighted sizes of its elements.
weighted_field(rent_structure, set, type) ==
    IF set = {} THEN 0
    ELSE LET element == CHOOSE e \in set : TRUE
             packed == CASE type = "UnlockCondition" -> UnlockCondition_pack(element)
                         [] type = "Feature" -> Feature_pack(element)
                         [] type = "NativeToken" -> NativeToken_pack(element)
         IN  packable_field(rent_structure, packed)
                 + weighted_field(rent_structure, set \ {element}, type)

\* RentCost::rent_cost: the byte cost of the offset and the weighted bytes.
rent_cost(rent_structure, weighted_bytes) ==
    rent_structure.v_byte_cost * (rent_structure.v_byte_offset + weighted_bytes)

(***************************************************************************)
(* Parameters                                                              *)
(***************************************************************************)
\* Option::Some
Some(value) == [kind |-> "Some", value |-> value]

\* protocol_parameters(): the protocol parameters of the tests.
protocol_parameters ==
    [token_supply |-> 1000,
     rent_structure |-> [v_byte_cost |-> 2, v_byte_factor_data |-> 1, v_byte_offset |-> 10]]

\* The rent structures handed to the builders.
RentStructures ==
    { protocol_parameters.rent_structure,
      [v_byte_cost |-> 1, v_byte_factor_data |-> 2, v_byte_offset |-> 0] }

\* ValidationParams: with the token supply of the protocol parameters, or without.
ValidationParamsSet ==
    { [token_supply |-> None], [token_supply |-> Some(protocol_parameters.token_supply)] }

\* OutputBuilderAmount
Amount(amount) == [kind |-> "Amount", amount |-> amount, rent_structure |-> None]

MinimumStorageDeposit(rent_structure) ==
    [kind |-> "MinimumStorageDeposit", amount |-> 0, rent_structure |-> rent_structure]

(***************************************************************************)
(* BasicOutput                                                             *)
(***************************************************************************)
BasicOutput_ALLOWED_UNLOCK_CONDITIONS ==
    {"Address", "StorageDepositReturn", "Timelock", "Expiration"}
\* A slip: the Issuer feature is let into the allow-list.
Mutant_BasicOutput_ALLOWED_FEATURES == {"Sender", "Metadata", "Tag", "Issuer"}

BasicOutput_ALLOWED_FEATURES == {"Sender", "Metadata", "Tag"}

\* BasicOutputBuilder::new
BasicOutputBuilder_new(amount) ==
    [variant |-> "Basic",
     amount |-> amount,
     mana |-> 0,
     native_tokens |-> {},
     unlock_conditions |-> {},
     features |-> {}]
\* A slip: the allow-list is checked before the presence of the address.
Mutant_basic_verify_unlock_conditions(VERIFY, unlock_conditions) ==
    IF VERIFY
    THEN IF verify_allowed_unlock_conditions(unlock_conditions,
                                             BasicOutput_ALLOWED_UNLOCK_CONDITIONS) # "Ok"
         THEN "DisallowedUnlockCondition"
         ELSE IF UnlockConditions_address(unlock_conditions) = None
         THEN "MissingAddressUnlockCondition"
         ELSE "Ok"
    ELSE "Ok"

\* verify_unlock_conditions of basic.rs
basic_verify_unlock_conditions(VERIFY, unlock_conditions) ==
    IF VERIFY
    THEN IF UnlockConditions_address(unlock_conditions) = None
         THEN "MissingAddressUnlockCondition"
         ELSE verify_allowed_unlock_conditions(unlock_conditions,
                                               BasicOutput_ALLOWED_UNLOCK_CONDITIONS)
    ELSE "Ok"

\* verify_features of basic.rs
basic_verify_features(VERIFY, features) ==
    IF VERIFY THEN verify_allowed_features(features, BasicOutput_ALLOWED_FEATURES) ELSE "Ok"

\* A slip: the mana field is left out of the builder's weighted bytes.
Mutant_BasicOutputBuilder_build_weighted_bytes(builder, rent_structure) ==
    data_field(rent_structure, 1)
    + data_field(rent_structure, 8)
    + data_field(rent_structure, 1)
    + weighted_field(rent_structure, builder.native_tokens, "NativeToken")
    + data_field(rent_structure, 1)
    + weighted_field(rent_structure, builder.unlock_conditions, "UnlockCondition")
    + data_field(rent_structure, 1)
    + weighted_field(rent_structure, builder.features, "Feature")

\* <BasicOutputBuilder as Rent>::build_weighted_bytes
BasicOutputBuilder_build_weighted_bytes(builder, rent_structure) ==
    \* Kind
    data_field(rent_structure, 1)
    \* Amount
    + data_field(rent_structure, 8)
    \* Mana
    + data_field(rent_structure, 8)
    \* Native Tokens
    + data_field(rent_structure, 1)
    + weighted_field(rent_structure, builder.native_tokens, "NativeToken")
    \* Unlock Conditions
    + data_field(rent_structure, 1)
    + weighted_field(rent_structure, builder.unlock_conditions, "UnlockCondition")
    \* Features
    + data_field(rent_structure, 1)
    + weighted_field(rent_structure, builder.features, "Feature")

\* <BasicOutputBuilder as RentCost>::rent_cost
BasicOutputBuilder_rent_cost(builder, rent_structure) ==
    rent_cost(rent_structure, BasicOutputBuilder_build_weighted_bytes(builder, rent_structure))

\* <BasicOutput as Rent>::build_weighted_bytes
BasicOutput_build_weighted_bytes(output, rent_structure) ==
    \* Kind
    data_field(rent_structure, 1)
    \* Amount
    + data_field(rent_structure, 8)
    \* Mana
    + data_field(rent_structure, 8)
    \* Native Tokens
    + packable_field(rent_structure, NativeTokens_pack(output.native_tokens))
    \* Unlock Conditions
    + packable_field(rent_structure, UnlockConditions_pack(output.unlock_conditions))
    \* Features
    + packable_field(rent_structure, Features_pack(output.features))

\* <BasicOutput as RentCost>::rent_cost
BasicOutput_rent_cost(output, rent_structure) ==
    rent_cost(rent_structure, BasicOutput_build_weighted_bytes(output, rent_structure))
\* StorageDepositReturnUnlockCondition::new: the return amount is verified
\* against the token supply.
StorageDepositReturnUnlockCondition_new(return_address, amount, token_supply) ==
    IF amount > token_supply
    THEN Err("InvalidStorageDepositAmount")
    ELSE Ok(StorageDepositReturnUnlockCondition(return_address, amount))
\* A slip: a builder with the MinimumStorageDeposit policy is treated as one
\* with the fixed amount 0.
Mutant_with_sufficient_storage_deposit_policy(builder, return_address, rent_structure, token_supply) ==
    LET amount == IF builder.amount.kind = "Amount" THEN builder.amount.amount ELSE 0
    IN  IF amount < BasicOutputBuilder_rent_cost(builder, rent_structure)
        THEN Try(StorageDepositReturnUnlockCondition_new(
                     return_address,
                     BasicOutputBuilder_rent_cost(builder, rent_structure) - amount,
                     token_supply),
                 LAMBDA required :
                     Ok([builder EXCEPT
                            !.unlock_conditions =
                                BTreeSet_replace(@, required.value, UnlockCondition_key)]))
        ELSE Ok(builder)

\* A slip: the rent cost is not computed again after the temporary condition
\* was added.
Mutant_with_sufficient_storage_deposit(builder, return_address, rent_structure, token_supply) ==
    IF builder.amount.kind = "Amount"
           /\ builder.amount.amount < BasicOutputBuilder_rent_cost(builder, rent_structure)
    THEN LET new_rent_cost == BasicOutputBuilder_rent_cost(builder, rent_structure)
         IN  Try(StorageDepositReturnUnlockCondition_new(
                     return_address, new_rent_cost - builder.amount.amount, token_supply),
                 LAMBDA required :
                     Ok([builder EXCEPT
                            !.amount = Amount(new_rent_cost),
                            !.unlock_conditions =
                                BTreeSet_replace(@, required.value, UnlockCondition_key)]))
    ELSE Ok(builder)

\* BasicOutputBuilder::with_sufficient_storage_deposit
BasicOutputBuilder_with_sufficient_storage_deposit(builder, return_address, rent_structure, token_supply) ==
    IF builder.amount.kind = "Amount"
           /\ builder.amount.amount < BasicOutputBuilder_rent_cost(builder, rent_structure)
    THEN Try(StorageDepositReturnUnlockCondition_new(return_address, 0, token_supply),
             LAMBDA temporary :
         LET added == [builder EXCEPT
                          !.unlock_conditions =
                              BTreeSet_insert(@, temporary.value, UnlockCondition_key)]
             new_rent_cost == BasicOutputBuilder_rent_cost(added, rent_structure)
         IN  Try(StorageDepositReturnUnlockCondition_new(
                     return_address, new_rent_cost - builder.amount.amount, token_supply),
                 LAMBDA required :
                     Ok([added EXCEPT
                            !.amount = Amount(new_rent_cost),
                            !.unlock_conditions =
                                BTreeSet_replace(@, required.value, UnlockCondition_key)])))
    ELSE Ok(builder)

\* BasicOutputBuilder::finish
BasicOutputBuilder_finish(builder) ==
    LET amount == IF builder.amount.kind = "Amount"
                  THEN builder.amount.amount
                  ELSE BasicOutputBuilder_rent_cost(builder, builder.amount.rent_structure)
        unlock_conditions == UnlockConditions_from_set(builder.unlock_conditions)
        features == Features_from_set(builder.features)
    IN  IF basic_verify_unlock_conditions(TRUE, unlock_conditions) # "Ok"
        THEN Err(basic_verify_unlock_conditions(TRUE, unlock_conditions))
        ELSE IF basic_verify_features(TRUE, features) # "Ok"
        THEN Err(basic_verify_features(TRUE, features))
        ELSE Ok([amount |-> amount,
                 mana |-> builder.mana,
                 native_tokens |-> NativeTokens_from_set(builder.native_tokens),
                 unlock_conditions |-> unlock_conditions,
                 features |-> features])

\* BasicOutputBuilder::finish_with_params
BasicOutputBuilder_finish_with_params(builder, params) ==
    LET output == BasicOutputBuilder_finish(builder)
    IN  IF ~output.ok THEN output
        ELSE IF /\ params.token_supply # None
                /\ verify_output_amount(output.value.amount, params.token_supply.value) # "Ok"
        THEN Err(verify_output_amount(output.value.amount, params.token_supply.value))
        ELSE output
\* BasicOutput::address (DelegationOutput::address is the same code); the
\* unwrap panics when the condition is missing.
BasicOutput_address(output) ==
    LET unlock_condition == UnlockConditions_address(output.unlock_conditions)
    IN  IF unlock_condition = None THEN [kind |-> "panic"] ELSE unlock_condition.address
\* A slip: an output that holds mana is not taken for a simple deposit.
Mutant_simple_deposit_address(output) ==
    IF /\ Len(output.unlock_conditions) = 1
       /\ output.unlock_conditions[1].kind = "Address"
       /\ output.mana = 0
       /\ output.native_tokens = <<>>
       /\ output.features = <<>>
    THEN Some(output.unlock_conditions[1].address)
    ELSE None

\* BasicOutput::simple_deposit_address
simple_deposit_address(output) ==
    IF /\ Len(output.unlock_conditions) = 1
       /\ output.unlock_conditions[1].kind = "Address"
    THEN IF output.native_tokens = <<>> /\ output.features = <<>>
         THEN Some(output.unlock_conditions[1].address)
         ELSE None
    ELSE None
\* From<&BasicOutput> for BasicOutputBuilder
BasicOutputBuilder_from(output) ==
    [variant |-> "Basic",
     amount |-> Amount(output.amount),
     mana |-> output.mana,
     native_tokens |-> { output.native_tokens[i] : i \in DOMAIN output.native_tokens },
     unlock_conditions |->
         { output.unlock_conditions[i] : i \in DOMAIN output.unlock_conditions },
     features |-> { output.features[i] : i \in DOMAIN output.features }]

\* <BasicOutput as Packable>::pack (derived): the fields in declaration order.
BasicOutput_pack(output) ==
    pack_int(output.amount, 8)
        \o pack_int(output.mana, 8)
        \o NativeTokens_pack(output.native_tokens)
        \o UnlockConditions_pack(output.unlock_conditions)
        \o Features_pack(output.features)

\* <BasicOutput as Packable>::unpack (derived): each field in declaration
\* order, followed by its verify_with function.
BasicOutput_unpack(bytes, VERIFY, visitor) ==
    Try(unpack_int(bytes, 8), LAMBDA amount :
    Verified(verify_output_amount_packable(VERIFY, amount.value, visitor),
    Try(unpack_int(amount.rest, 8), LAMBDA mana :
    Try(NativeTokens_unpack(mana.rest, VERIFY), LAMBDA native_tokens :
    Try(UnlockConditions_unpack(native_tokens.rest, VERIFY, visitor),
        LAMBDA unlock_conditions :
    Verified(basic_verify_unlock_conditions(VERIFY, unlock_conditions.value),
    Try(Features_unpack(unlock_conditions.rest, VERIFY), LAMBDA features :
    Verified(basic_verify_features(VERIFY, features.value),
    Unpacked([amount |-> amount.value,
              mana |-> mana.value,
              native_tokens |-> native_tokens.value,
              unlock_conditions |-> unlock_conditions.value,
              features |-> features.value],
             features.rest)))))))))

(***************************************************************************)
(* Output: the rent of a finished Foundry or Delegation output              *)
(***************************************************************************)
\* Output::rent_cost of a variant that has no Rent implementation of its own:
\* the weighted bytes are the kind byte and the packed variant.
Output_rent_cost(packed, rent_structure) ==
    rent_cost(rent_structure,
              data_field(rent_structure, 1) + packable_field(rent_structure, packed))

(***************************************************************************)
(* FoundryOutput: builder and packing                                      *)
(***************************************************************************)
FoundryOutput_ALLOWED_UNLOCK_CONDITIONS == {"ImmutableAliasAddress"}

FoundryOutput_ALLOWED_FEATURES == {"Metadata"}

FoundryOutput_ALLOWED_IMMUTABLE_FEATURES == {"Metadata"}

\* FoundryOutputBuilder::new
FoundryOutputBuilder_new(amount, serial_number, token_scheme) ==
    [variant |-> "Foundry",
     amount |-> amount,
     native_tokens |-> {},
     serial_number |-> serial_number,
     token_scheme |-> token_scheme,
     unlock_conditions |-> {},
     features |-> {},
     immutable_features |-> {}]
\* A slip: the presence of the ImmutableAliasAddress condition is not checked.
Mutant_foundry_verify_unlock_conditions(unlock_conditions) ==
    verify_allowed_unlock_conditions(unlock_conditions,
                                     FoundryOutput_ALLOWED_UNLOCK_CONDITIONS)

\* verify_unlock_conditions of foundry.rs
foundry_verify_unlock_conditions(unlock_conditions) ==
    IF immutable_alias_address(unlock_conditions) = None
    THEN "MissingAddressUnlockCondition"
    ELSE verify_allowed_unlock_conditions(unlock_conditions,
                                          FoundryOutput_ALLOWED_UNLOCK_CONDITIONS)

\* <FoundryOutput as Packable>::pack
FoundryOutput_pack(output) ==
    pack_int(output.amount, 8)
        \o NativeTokens_pack(output.native_tokens)
        \o pack_int(output.serial_number, 4)
        \o TokenScheme_pack(output.token_scheme)
        \o UnlockConditions_pack(output.unlock_conditions)
        \o Features_pack(output.features)
        \o Features_pack(output.immutable_features)
\* A slip: the serial number is checked after the unlock conditions.
Mutant_FoundryOutputBuilder_finish(builder) ==
    LET unlock_conditions == UnlockConditions_from_set(builder.unlock_conditions)
        features == Features_from_set(builder.features)
        immutable_features == Features_from_set(builder.immutable_features)
        output == [amount |-> 1,
                   native_tokens |-> NativeTokens_from_set(builder.native_tokens),
                   serial_number |-> builder.serial_number,
                   token_scheme |-> builder.token_scheme,
                   unlock_conditions |-> unlock_conditions,
                   features |-> features,
                   immutable_features |-> immutable_features]
        amount == IF builder.amount.kind = "Amount"
                  THEN builder.amount.amount
                  ELSE Output_rent_cost(FoundryOutput_pack(output), builder.amount.rent_structure)
    IN  IF foundry_verify_unlock_conditions(unlock_conditions) # "Ok"
        THEN Err(foundry_verify_unlock_conditions(unlock_conditions))
        ELSE IF builder.serial_number = 0 THEN Err("InvalidFoundryZeroSerialNumber")
        ELSE IF verify_allowed_features(features, FoundryOutput_ALLOWED_FEATURES) # "Ok"
        THEN Err(verify_allowed_features(features, FoundryOutput_ALLOWED_FEATURES))
        ELSE IF verify_allowed_features(immutable_features,
                                        FoundryOutput_ALLOWED_IMMUTABLE_FEATURES) # "Ok"
        THEN Err(verify_allowed_features(immutable_features,
                                         FoundryOutput_ALLOWED_IMMUTABLE_FEATURES))
        ELSE Ok([output EXCEPT !.amount = amount])

\* FoundryOutputBuilder::finish
FoundryOutputBuilder_finish(builder) ==
    LET unlock_conditions == UnlockConditions_from_set(builder.unlock_conditions)
        features == Features_from_set(builder.features)
        immutable_features == Features_from_set(builder.immutable_features)
        output == [amount |-> 1,
                   native_tokens |-> NativeTokens_from_set(builder.native_tokens),
                   serial_number |-> builder.serial_number,
                   token_scheme |-> builder.token_scheme,
                   unlock_conditions |-> unlock_conditions,
                   features |-> features,
                   immutable_features |-> immutable_features]
        amount == IF builder.amount.kind = "Amount"
                  THEN builder.amount.amount
                  ELSE Output_rent_cost(FoundryOutput_pack(output), builder.amount.rent_structure)
    IN  IF builder.serial_number = 0 THEN Err("InvalidFoundryZeroSerialNumber")
        ELSE IF foundry_verify_unlock_conditions(unlock_conditions) # "Ok"
        THEN Err(foundry_verify_unlock_conditions(unlock_conditions))
        ELSE IF verify_allowed_features(features, FoundryOutput_ALLOWED_FEATURES) # "Ok"
        THEN Err(verify_allowed_features(features, FoundryOutput_ALLOWED_FEATURES))
        ELSE IF verify_allowed_features(immutable_features,
                                        FoundryOutput_ALLOWED_IMMUTABLE_FEATURES) # "Ok"
        THEN Err(verify_allowed_features(immutable_features,
                                         FoundryOutput_ALLOWED_IMMUTABLE_FEATURES))
        ELSE Ok([output EXCEPT !.amount = amount])

\* FoundryOutputBuilder::finish_with_params
FoundryOutputBuilder_finish_with_params(builder, params) ==
    LET output == FoundryOutputBuilder_finish(builder)
    IN  IF ~output.ok THEN output
        ELSE IF /\ params.token_supply # None
                /\ verify_output_amount(output.value.amount, params.token_supply.value) # "Ok"
        THEN Err(verify_output_amount(output.value.amount, params.token_supply.value))
        ELSE output
\* A slip: the immutable features of the output are not copied.
Mutant_FoundryOutputBuilder_from(output) ==
    [variant |-> "Foundry",
     amount |-> Amount(output.amount),
     native_tokens |-> { output.native_tokens[i] : i \in DOMAIN output.native_tokens },
     serial_number |-> output.serial_number,
     token_scheme |-> output.token_scheme,
     unlock_conditions |->
         { output.unlock_conditions[i] : i \in DOMAIN output.unlock_conditions },
     features |-> { output.features[i] : i \in DOMAIN output.features },
     immutable_features |-> {}]

\* From<&FoundryOutput> for FoundryOutputBuilder
FoundryOutputBuilder_from(output) ==
    [variant |-> "Foundry",
     amount |-> Amount(output.amount),
     native_tokens |-> { output.native_tokens[i] : i \in DOMAIN output.native_tokens },
     serial_number |-> output.serial_number,
     token_scheme |-> output.token_scheme,
     unlock_conditions |->
         { output.unlock_conditions[i] : i \in DOMAIN output.unlock_conditions },
     features |-> { output.features[i] : i \in DOMAIN output.features },
     immutable_features |->
         { output.immutable_features[i] : i \in DOMAIN output.immutable_features }]

\* A slip: the two feature collections are read in the wrong order.
Mutant_FoundryOutput_unpack(bytes, VERIFY, visitor) ==
    Try(unpack_int(bytes, 8), LAMBDA amount :
    Verified(verify_output_amount_packable(VERIFY, amount.value, visitor),
    Try(NativeTokens_unpack(amount.rest, VERIFY), LAMBDA native_tokens :
    Try(unpack_int(native_tokens.rest, 4), LAMBDA serial_number :
    Try(TokenScheme_unpack(serial_number.rest, VERIFY), LAMBDA token_scheme :
    Try(UnlockConditions_unpack(token_scheme.rest, VERIFY, visitor),
        LAMBDA unlock_conditions :
    Verified(IF VERIFY THEN foundry_verify_unlock_conditions(unlock_conditions.value)
             ELSE "Ok",
    Try(Features_unpack(unlock_conditions.rest, VERIFY), LAMBDA immutable_features :
    Try(Features_unpack(immutable_features.rest, VERIFY), LAMBDA features :
    Unpacked([amount |-> amount.value,
              native_tokens |-> native_tokens.value,
              serial_number |-> serial_number.value,
              token_scheme |-> token_scheme.value,
              unlock_conditions |-> unlock_conditions.value,
              features |-> features.value,
              immutable_features |-> immutable_features.value],
             features.rest))))))))))

\* <FoundryOutput as Packable>::unpack
FoundryOutput_unpack(bytes, VERIFY, visitor) ==
    Try(unpack_int(bytes, 8), LAMBDA amount :
    Verified(verify_output_amount_packable(VERIFY, amount.value, visitor),
    Try(NativeTokens_unpack(amount.rest, VERIFY), LAMBDA native_tokens :
    Try(unpack_int(native_tokens.rest, 4), LAMBDA serial_number :
    Try(TokenScheme_unpack(serial_number.rest, VERIFY), LAMBDA token_scheme :
    Try(UnlockConditions_unpack(token_scheme.rest, VERIFY, visitor),
        LAMBDA unlock_conditions :
    Verified(IF VERIFY THEN foundry_verify_unlock_conditions(unlock_conditions.value)
             ELSE "Ok",
    Try(Features_unpack(unlock_conditions.rest, VERIFY), LAMBDA features :
    Verified(IF VERIFY
             THEN verify_allowed_features(features.value, FoundryOutput_ALLOWED_FEATURES)
             ELSE "Ok",
    Try(Features_unpack(features.rest, VERIFY), LAMBDA immutable_features :
    Verified(IF VERIFY
             THEN verify_allowed_features(immutable_features.value,
                                          FoundryOutput_ALLOWED_IMMUTABLE_FEATURES)
             ELSE "Ok",
    Unpacked([amount |-> amount.value,
              native_tokens |-> native_tokens.value,
              serial_number |-> serial_number.value,
              token_scheme |-> token_scheme.value,
              unlock_conditions |-> unlock_conditions.value,
              features |-> features.value,
              immutable_features |-> immutable_features.value],
             immutable_features.rest))))))))))))

(***************************************************************************)
(* The transport representation of the outputs (dto)                       *)
(***************************************************************************)
RECURSIVE to_string(_)
\* u64::to_string: the decimal digits, the most significant first.
to_string(n) == IF n < 10 THEN <<n>> ELSE to_string(n \div 10) \o <<n % 10>>

RECURSIVE digits_value(_)
\* The number that a sequence of decimal digits denotes.
digits_value(string) ==
    IF string = <<>> THEN 0
    ELSE digits_value(SubSeq(string, 1, Len(string) - 1)) * 10 + string[Len(string)]

\* str::parse::<u64> with map_err(|_| Error::InvalidField(..)): the empty
\* string and a string with a character that is no digit are not parsed.
parse_u64(string) ==
    IF string = <<>> \/ \E i \in DOMAIN string : string[i] \notin 0..9
    THEN Err("InvalidField")
    ELSE Ok(digits_value(string))

\* From<&UnlockCondition> for UnlockConditionDto: the kind as a number, the
\* return amount as a decimal string.
UnlockConditionDto_from(uc) ==
    [type |-> UnlockConditionKind[uc.kind],
     address |-> uc.address,
     amount |-> to_string(uc.amount),
     timestamp |-> uc.timestamp]

\* UnlockCondition::try_from_dto_with_params: the return amount of a
\* StorageDepositReturn condition is verified when the params carry a token
\* supply.
UnlockCondition_try_from_dto_with_params(dto, params) ==
    LET kind == CHOOSE k \in DOMAIN UnlockConditionKind : UnlockConditionKind[k] = dto.type
    IN  Try(parse_u64(dto.amount), LAMBDA amount :
            IF kind = "StorageDepositReturn" /\ params.token_supply # None
            THEN StorageDepositReturnUnlockCondition_new(dto.address, amount.value,
                                                         params.token_supply.value)
            ELSE Ok([kind |-> kind, address |-> dto.address, amount |-> amount.value,
                     timestamp |-> dto.timestamp]))

\* From<&Feature> for FeatureDto
FeatureDto_from(feature) ==
    [type |-> FeatureKind[feature.kind], address |-> feature.address, data |-> feature.data]

\* TryFrom<FeatureDto> for Feature: a metadata feature is constructed anew and
\* its length verified.
Feature_try_from(dto) ==
    LET kind == CHOOSE k \in DOMAIN FeatureKind : FeatureKind[k] = dto.type
    IN  IF kind = "Metadata" /\ dto.data = <<>>
        THEN Err("InvalidMetadataFeatureLength")
        ELSE Ok([kind |-> kind, address |-> dto.address, data |-> dto.data])

\* From<&TokenScheme> for TokenSchemeDto: the counters as strings.
TokenSchemeDto_from(token_scheme) ==
    [type |-> 0,
     minted_tokens |-> to_string(token_scheme.minted_tokens),
     melted_tokens |-> to_string(token_scheme.melted_tokens),
     maximum_supply |-> to_string(token_scheme.maximum_supply)]

\* TryFrom<TokenSchemeDto> for TokenScheme: the counters are parsed and the
\* scheme constructed anew, its supply verified.
TokenScheme_try_from(dto) ==
    Try(parse_u64(dto.minted_tokens), LAMBDA minted :
    Try(parse_u64(dto.melted_tokens), LAMBDA melted :
    Try(parse_u64(dto.maximum_supply), LAMBDA maximum :
        IF \/ maximum.value = 0
           \/ melted.value > minted.value
           \/ minted.value - melted.value > maximum.value
        THEN Err("InvalidFoundryOutputSupply")
        ELSE Ok(SimpleTokenScheme(minted.value, melted.value, maximum.value)))))

RECURSIVE add_unlock_conditions_from_dto(_, _, _)
\* for u in dto.unlock_conditions { builder = builder.add_unlock_condition(
\*     UnlockCondition::try_from_dto_with_params(u, &params)?) }
add_unlock_conditions_from_dto(builder, dtos, params) ==
    IF dtos = <<>> THEN Ok(builder)
    ELSE Try(UnlockCondition_try_from_dto_with_params(Head(dtos), params), LAMBDA u :
             add_unlock_conditions_from_dto(
                 [builder EXCEPT !.unlock_conditions =
                                     BTreeSet_insert(@, u.value, UnlockCondition_key)],
                 Tail(dtos), params))

RECURSIVE add_features_from_dto(_, _, _)
\* for b in dto.features { builder = builder.add_feature(Feature::try_from(b)?) }
\* and the same for the immutable features.
add_features_from_dto(builder, field, dtos) ==
    IF dtos = <<>> THEN Ok(builder)
    ELSE Try(Feature_try_from(Head(dtos)), LAMBDA b :
             add_features_from_dto(
                 [builder EXCEPT ![field] = BTreeSet_insert(@, b.value, Feature_key)],
                 field, Tail(dtos)))

\* From<&BasicOutput> for BasicOutputDto
BasicOutputDto_from(value) ==
    [kind |-> 3,
     amount |-> value.amount,
     mana |-> value.mana,
     native_tokens |-> value.native_tokens,
     unlock_conditions |->
         [i \in DOMAIN value.unlock_conditions |->
              UnlockConditionDto_from(value.unlock_conditions[i])],
     features |-> value.features]

\* TryFromDto for BasicOutput: try_from_dto_with_params_inner
BasicOutput_try_from_dto_with_params_inner(dto, params) ==
    LET builder ==
            [BasicOutputBuilder_new(Amount(dto.amount)) EXCEPT
                 !.native_tokens = { dto.native_tokens[i] : i \in DOMAIN dto.native_tokens },
                 !.mana = dto.mana,
                 !.features = { dto.features[i] : i \in DOMAIN dto.features }]
    IN  Try(add_unlock_conditions_from_dto(builder, dto.unlock_conditions, params),
            LAMBDA with_unlock_conditions_added :
                BasicOutputBuilder_finish_with_params(with_unlock_conditions_added.value,
                                                      params))

\* From<&FoundryOutput> for FoundryOutputDto
FoundryOutputDto_from(value) ==
    [kind |-> 5,
     amount |-> to_string(value.amount),
     native_tokens |-> value.native_tokens,
     serial_number |-> value.serial_number,
     token_scheme |-> TokenSchemeDto_from(value.token_scheme),
     unlock_conditions |->
         [i \in DOMAIN value.unlock_conditions |->
              UnlockConditionDto_from(value.unlock_conditions[i])],
     features |-> [i \in DOMAIN value.features |-> FeatureDto_from(value.features[i])],
     immutable_features |->
         [i \in DOMAIN value.immutable_features |->
              FeatureDto_from(value.immutable_features[i])]]

\* A slip: the immutable features of the dto are added as features.
Mutant_FoundryOutput_try_from_dto(dto, params) ==
    Try(parse_u64(dto.amount), LAMBDA amount :
    Try(TokenScheme_try_from(dto.token_scheme), LAMBDA token_scheme :
    Try(add_features_from_dto(
            [FoundryOutputBuilder_new(Amount(amount.value), dto.serial_number,
                                      token_scheme.value) EXCEPT
                 !.native_tokens = { dto.native_tokens[i] : i \in DOMAIN dto.native_tokens }],
            "features", dto.features), LAMBDA with_features_added :
    Try(add_features_from_dto(with_features_added.value, "features",
                              dto.immutable_features), LAMBDA with_immutable_features_added :
    Try(add_unlock_conditions_from_dto(with_immutable_features_added.value,
                                       dto.unlock_conditions, params),
        LAMBDA with_unlock_conditions_added :
            FoundryOutputBuilder_finish_with_params(with_unlock_conditions_added.value,
                                                    params))))))

\* TryFromDto for FoundryOutput: try_from_dto_with_params_inner
FoundryOutput_try_from_dto_with_params_inner(dto, params) ==
    Try(parse_u64(dto.amount), LAMBDA amount :
    Try(TokenScheme_try_from(dto.token_scheme), LAMBDA token_scheme :
    Try(add_features_from_dto(
            [FoundryOutputBuilder_new(Amount(amount.value), dto.serial_number,
                                      token_scheme.value) EXCEPT
                 !.native_tokens = { dto.native_tokens[i] : i \in DOMAIN dto.native_tokens }],
            "features", dto.features), LAMBDA with_features_added :
    Try(add_features_from_dto(with_features_added.value, "immutable_features",
                              dto.immutable_features), LAMBDA with_immutable_features_added :
    Try(add_unlock_conditions_from_dto(with_immutable_features_added.value,
                                       dto.unlock_conditions, params),
        LAMBDA with_unlock_conditions_added :
            FoundryOutputBuilder_finish_with_params(with_unlock_conditions_added.value,
                                                    params))))))

\* From<&Output> for OutputDto, for the two variants
OutputDto_from(variant, output) ==
    CASE variant = "Basic" -> BasicOutputDto_from(output)
      [] variant = "Foundry" -> FoundryOutputDto_from(output)

\* Output::try_from_dto_with_params
try_from_dto_with_params(variant, dto, params) ==
    CASE variant = "Basic" -> BasicOutput_try_from_dto_with_params_inner(dto, params)
      [] variant = "Foundry" -> FoundryOutput_try_from_dto_with_params_inner(dto, params)

\* Output::try_from_dto: the conversion with the default ValidationParams,
\* which carry no token supply.
try_from_dto(variant, dto) ==
    try_from_dto_with_params(variant, dto, [token_supply |-> None])

(***************************************************************************)
(* DelegationOutput                                                        *)
(***************************************************************************)
DelegationOutput_ALLOWED_UNLOCK_CONDITIONS == {"Address"}

DelegationOutput_ALLOWED_IMMUTABLE_FEATURES == {"Issuer"}
\* From<&OutputId> for DelegationId: the BLAKE2b-256 hash of the output id, kept
\* as an injective stand-in whose values are apart from the null id 0 and from
\* the ids handed to the builder.
DelegationId_from(output_id) == 100 + output_id

\* A slip: the id is derived from the output id whether or not it is null.
Mutant_or_from_output_id(delegation_id, output_id) == DelegationId_from(output_id)

\* DelegationId::or_from_output_id
or_from_output_id(delegation_id, output_id) ==
    IF delegation_id = 0 THEN DelegationId_from(output_id) ELSE delegation_id

\* DelegationOutput::delegation_id_non_null
delegation_id_non_null(output, output_id) ==
    or_from_output_id(output.delegation_id, output_id)

\* DelegationOutputBuilder::new
DelegationOutputBuilder_new(amount, delegated_amount, delegation_id, validator_id) ==
    [variant |-> "Delegation",
     amount |-> amount,
     delegated_amount |-> delegated_amount,
     delegation_id |-> delegation_id,
     validator_id |-> validator_id,
     start_epoch |-> 0,
     end_epoch |-> 0,
     unlock_conditions |-> {},
     immutable_features |-> {}]
\* A slip: the conditions are verified whether or not VERIFY is set.
Mutant_delegation_verify_unlock_conditions(VERIFY, unlock_conditions) ==
    IF UnlockConditions_address(unlock_conditions) = None
    THEN "MissingAddressUnlockCondition"
    ELSE verify_allowed_unlock_conditions(unlock_conditions,
                                          DelegationOutput_ALLOWED_UNLOCK_CONDITIONS)

\* verify_unlock_conditions of delegation.rs
delegation_verify_unlock_conditions(VERIFY, unlock_conditions) ==
    IF VERIFY
    THEN IF UnlockConditions_address(unlock_conditions) = None
         THEN "MissingAddressUnlockCondition"
         ELSE verify_allowed_unlock_conditions(unlock_conditions,
                                               DelegationOutput_ALLOWED_UNLOCK_CONDITIONS)
    ELSE "Ok"

\* <DelegationOutput as Packable>::pack; DelegationId and AccountId are 32 bytes.
DelegationOutput_pack(output) ==
    pack_int(output.amount, 8)
        \o pack_int(output.delegated_amount, 8)
        \o pack_int(output.delegation_id, 32)
        \o pack_int(output.validator_id, 32)
        \o pack_int(output.start_epoch, 8)
        \o pack_int(output.end_epoch, 8)
        \o UnlockConditions_pack(output.unlock_conditions)
        \o Features_pack(output.immutable_features)

\* DelegationOutputBuilder::finish
DelegationOutputBuilder_finish(builder) ==
    LET unlock_conditions == UnlockConditions_from_set(builder.unlock_conditions)
        immutable_features == Features_from_set(builder.immutable_features)
        output == [amount |-> 1,
                   delegated_amount |-> builder.delegated_amount,
                   delegation_id |-> builder.delegation_id,
                   validator_id |-> builder.validator_id,
                   start_epoch |-> builder.start_epoch,
                   end_epoch |-> builder.end_epoch,
                   unlock_conditions |-> unlock_conditions,
                   immutable_features |-> immutable_features]
        amount == IF builder.amount.kind = "Amount"
                  THEN builder.amount.amount
                  ELSE Output_rent_cost(DelegationOutput_pack(output),
                                        builder.amount.rent_structure)
    IN  IF delegation_verify_unlock_conditions(TRUE, unlock_conditions) # "Ok"
        THEN Err(delegation_verify_unlock_conditions(TRUE, unlock_conditions))
        ELSE IF verify_allowed_features(immutable_features,
                                        DelegationOutput_ALLOWED_IMMUTABLE_FEATURES) # "Ok"
        THEN Err(verify_allowed_features(immutable_features,
                                         DelegationOutput_ALLOWED_IMMUTABLE_FEATURES))
        ELSE Ok([output EXCEPT !.amount = amount])
\* A slip: the token supply of the parameters is not looked at.
Mutant_DelegationOutputBuilder_finish_with_params(builder, params) ==
    DelegationOutputBuilder_finish(builder)

\* DelegationOutputBuilder::finish_with_params
DelegationOutputBuilder_finish_with_params(builder, params) ==
    LET output == DelegationOutputBuilder_finish(builder)
    IN  IF ~output.ok THEN output
        ELSE IF /\ params.token_supply # None
                /\ verify_output_amount(output.value.amount, params.token_supply.value) # "Ok"
        THEN Err(verify_output_amount(output.value.amount, params.token_supply.value))
        ELSE output
\* From<&DelegationOutput> for DelegationOutputBuilder
DelegationOutputBuilder_from(output) ==
    [variant |-> "Delegation",
     amount |-> Amount(output.amount),
     delegated_amount |-> output.delegated_amount,
     delegation_id |-> output.delegation_id,
     validator_id |-> output.validator_id,
     start_epoch |-> output.start_epoch,
     end_epoch |-> output.end_epoch,
     unlock_conditions |->
         { output.unlock_conditions[i] : i \in DOMAIN output.unlock_conditions },
     immutable_features |->
         { output.immutable_features[i] : i \in DOMAIN output.immutable_features }]

\* <DelegationOutput as Packable>::unpack
DelegationOutput_unpack(bytes, VERIFY, visitor) ==
    Try(unpack_int(bytes, 8), LAMBDA amount :
    Verified(IF VERIFY THEN verify_output_amount(amount.value, visitor.token_supply)
             ELSE "Ok",
    Try(unpack_int(amount.rest, 8), LAMBDA delegated_amount :
    Try(unpack_int(delegated_amount.rest, 32), LAMBDA delegation_id :
    Try(unpack_int(delegation_id.rest, 32), LAMBDA validator_id :
    Try(unpack_int(validator_id.rest, 8), LAMBDA start_epoch :
    Try(unpack_int(start_epoch.rest, 8), LAMBDA end_epoch :
    Try(UnlockConditions_unpack(end_epoch.rest, VERIFY, visitor), LAMBDA unlock_conditions :
    Verified(delegation_verify_unlock_conditions(VERIFY, unlock_conditions.value),
    Try(Features_unpack(unlock_conditions.rest, VERIFY), LAMBDA immutable_features :
    Verified(IF VERIFY
             THEN verify_allowed_features(immutable_features.value,
                                          DelegationOutput_ALLOWED_IMMUTABLE_FEATURES)
             ELSE "Ok",
    Unpacked([amount |-> amount.value,
              delegated_amount |-> delegated_amount.value,
              delegation_id |-> delegation_id.value,
              validator_id |-> validator_id.value,
              start_epoch |-> start_epoch.value,
              end_epoch |-> end_epoch.value,
              unlock_conditions |-> unlock_conditions.value,
              immutable_features |-> immutable_features.value],
             immutable_features.rest))))))))))))

(***************************************************************************)
(* FoundryOutput: the state transition verifier                            *)
(***************************************************************************)
\* A slip: the serial number is left out of the comparison.
Mutant_immutable_fields_mutated(current, next) ==
    \/ alias_address(current) # alias_address(next)
    \/ current.immutable_features # next.immutable_features

\* transition_inner, first check: alias address, serial number and immutable
\* features are compared between the two states.
transition_inner_immutable_fields_mutated(current, next) ==
    \/ alias_address(current) # alias_address(next)
    \/ current.serial_number # next.serial_number
    \/ current.immutable_features # next.immutable_features

\* transition_inner, second check: the maximum supply of the token scheme.
transition_inner_maximum_supply_mutated(current_token_scheme, next_token_scheme) ==
    current_token_scheme.maximum_supply # next_token_scheme.maximum_supply

\* A slip: only the minted tokens are compared.
Mutant_non_monotonic(current_token_scheme, next_token_scheme) ==
    current_token_scheme.minted_tokens > next_token_scheme.minted_tokens

\* transition_inner, third check: minted and melted tokens never decrease.
transition_inner_non_monotonic(current_token_scheme, next_token_scheme) ==
    \/ current_token_scheme.minted_tokens > next_token_scheme.minted_tokens
    \/ current_token_scheme.melted_tokens > next_token_scheme.melted_tokens

\* A slip: the minted difference may stay below the token difference.
Mutant_mint(current_token_scheme, next_token_scheme, input_tokens, output_tokens) ==
    LET minted_diff == next_token_scheme.minted_tokens - current_token_scheme.minted_tokens
        token_diff == output_tokens - input_tokens
    IN  IF minted_diff > token_diff
        THEN "InconsistentNativeTokensMint"
        ELSE IF current_token_scheme.melted_tokens # next_token_scheme.melted_tokens
        THEN "InconsistentNativeTokensMint"
        ELSE "Ok"
\* A slip: a mint may raise melted_tokens.
Mutant_mint_melted(current_token_scheme, next_token_scheme, input_tokens, output_tokens) ==
    LET minted_diff == next_token_scheme.minted_tokens - current_token_scheme.minted_tokens
        token_diff == output_tokens - input_tokens
    IN  IF minted_diff # token_diff
        THEN "InconsistentNativeTokensMint"
        ELSE "Ok"

\* transition_inner, Ordering::Less: Mint
transition_inner_mint(current_token_scheme, next_token_scheme, input_tokens, output_tokens) ==
    LET minted_diff == next_token_scheme.minted_tokens - current_token_scheme.minted_tokens
        token_diff == output_tokens - input_tokens
    IN  IF minted_diff # token_diff
        THEN "InconsistentNativeTokensMint"
        ELSE IF current_token_scheme.melted_tokens # next_token_scheme.melted_tokens
        THEN "InconsistentNativeTokensMint"
        ELSE "Ok"

\* A slip: the melted tokens are not compared.
Mutant_transition(current_token_scheme, next_token_scheme) ==
    IF current_token_scheme.minted_tokens # next_token_scheme.minted_tokens
    THEN "InconsistentNativeTokensTransition"
    ELSE "Ok"

\* transition_inner, Ordering::Equal: Transition
transition_inner_transition(current_token_scheme, next_token_scheme) ==
    IF \/ current_token_scheme.minted_tokens # next_token_scheme.minted_tokens
       \/ current_token_scheme.melted_tokens # next_token_scheme.melted_tokens
    THEN "InconsistentNativeTokensTransition"
    ELSE "Ok"

\* A slip: the melted difference is not compared with the token difference.
Mutant_melt_burn(current_token_scheme, next_token_scheme, input_tokens, output_tokens) ==
    IF /\ current_token_scheme.melted_tokens # next_token_scheme.melted_tokens
       /\ current_token_scheme.minted_tokens # next_token_scheme.minted_tokens
    THEN "InconsistentNativeTokensMeltBurn"
    ELSE "Ok"

\* transition_inner, Ordering::Greater: Melt / Burn
transition_inner_melt_burn(current_token_scheme, next_token_scheme, input_tokens, output_tokens) ==
    IF /\ current_token_scheme.melted_tokens # next_token_scheme.melted_tokens
       /\ current_token_scheme.minted_tokens # next_token_scheme.minted_tokens
    THEN "InconsistentNativeTokensMeltBurn"
    ELSE
    LET melted_diff == next_token_scheme.melted_tokens - current_token_scheme.melted_tokens
        token_diff == input_tokens - output_tokens
    IN  IF melted_diff > token_diff
        THEN "InconsistentNativeTokensMeltBurn"
        ELSE "Ok"
\* A slip: the counters are compared before the maximum supply.
Mutant_transition_inner(current, next, input_native_tokens, output_native_tokens) ==
    IF transition_inner_immutable_fields_mutated(current, next)
    THEN "MutatedImmutableField"
    ELSE IF transition_inner_non_monotonic(current.token_scheme, next.token_scheme)
    THEN "NonMonotonicallyIncreasingNativeTokens"
    ELSE IF transition_inner_maximum_supply_mutated(current.token_scheme, next.token_scheme)
    THEN "MutatedImmutableField"
    ELSE IF get_or_default(input_native_tokens, token_id(next))
                < get_or_default(output_native_tokens, token_id(next))
    THEN transition_inner_mint(current.token_scheme, next.token_scheme,
                               get_or_default(input_native_tokens, token_id(next)),
                               get_or_default(output_native_tokens, token_id(next)))
    ELSE IF get_or_default(input_native_tokens, token_id(next))
                = get_or_default(output_native_tokens, token_id(next))
    THEN transition_inner_transition(current.token_scheme, next.token_scheme)
    ELSE transition_inner_melt_burn(current.token_scheme, next.token_scheme,
                                    get_or_default(input_native_tokens, token_id(next)),
                                    get_or_default(output_native_tokens, token_id(next)))

\* FoundryOutput::transition_inner
transition_inner(current, next, input_native_tokens, output_native_tokens) ==
    IF transition_inner_immutable_fields_mutated(current, next)
    THEN "MutatedImmutableField"
    ELSE
    LET tid == token_id(next)
        input_tokens == get_or_default(input_native_tokens, tid)
        output_tokens == get_or_default(output_native_tokens, tid)
        current_token_scheme == current.token_scheme
        next_token_scheme == next.token_scheme
    IN  IF transition_inner_maximum_supply_mutated(current_token_scheme, next_token_scheme)
        THEN "MutatedImmutableField"
        ELSE IF transition_inner_non_monotonic(current_token_scheme, next_token_scheme)
        THEN "NonMonotonicallyIncreasingNativeTokens"
        ELSE IF input_tokens < output_tokens
        THEN transition_inner_mint(current_token_scheme, next_token_scheme,
                                   input_tokens, output_tokens)
        ELSE IF input_tokens = output_tokens
        THEN transition_inner_transition(current_token_scheme, next_token_scheme)
        ELSE transition_inner_melt_burn(current_token_scheme, next_token_scheme,
                                        input_tokens, output_tokens)

\* ChainId::from(AliasId)
ChainId_from(alias_id) == <<"ChainId", "Alias", alias_id>>

\* A slip: the serial number may equal the input alias's foundry counter.
Mutant_creation_alias(next, ctx) ==
    LET alias_chain_id == ChainId_from(alias_address(next).id)
        input_alias == chain_get(ctx.input_chains, alias_chain_id)
        output_alias == chain_get(ctx.output_chains, alias_chain_id)
    IN  IF ~ (/\ input_alias # None /\ input_alias.kind = "Alias"
              /\ output_alias # None /\ output_alias.kind = "Alias")
        THEN "MissingAliasForFoundry"
        ELSE IF \/ input_alias.foundry_counter > next.serial_number
                \/ next.serial_number > output_alias.foundry_counter
        THEN "InconsistentFoundrySerialNumber"
        ELSE "Ok"

\* creation, first part: the owning alias and its foundry counter.
creation_alias(next, ctx) ==
    LET alias_chain_id == ChainId_from(alias_address(next).id)
        input_alias == chain_get(ctx.input_chains, alias_chain_id)
        output_alias == chain_get(ctx.output_chains, alias_chain_id)
    IN  IF ~ (/\ input_alias # None /\ input_alias.kind = "Alias"
              /\ output_alias # None /\ output_alias.kind = "Alias")
        THEN "MissingAliasForFoundry"
        ELSE IF \/ input_alias.foundry_counter >= next.serial_number
                \/ next.serial_number > output_alias.foundry_counter
        THEN "InconsistentFoundrySerialNumber"
        ELSE "Ok"

\* A slip: the melted tokens of the new foundry are not checked.
Mutant_creation_native_tokens(next, ctx) ==
    LET tid == token_id(next)
        output_tokens == get_or_default(ctx.output_native_tokens, tid)
        next_token_scheme == next.token_scheme
    IN  IF contains_key(ctx.input_native_tokens, tid)
        THEN "InconsistentNativeTokensFoundryCreation"
        ELSE IF output_tokens # next_token_scheme.minted_tokens
        THEN "InconsistentNativeTokensFoundryCreation"
        ELSE "Ok"

\* creation, second part: the native tokens of the new foundry.
creation_native_tokens(next, ctx) ==
    LET tid == token_id(next)
        output_tokens == get_or_default(ctx.output_native_tokens, tid)
        next_token_scheme == next.token_scheme
    IN  IF contains_key(ctx.input_native_tokens, tid)
        THEN "InconsistentNativeTokensFoundryCreation"
        ELSE IF \/ output_tokens # next_token_scheme.minted_tokens
                \/ next_token_scheme.melted_tokens # 0
        THEN "InconsistentNativeTokensFoundryCreation"
        ELSE "Ok"

\* <FoundryOutput as StateTransitionVerifier>::creation
creation(next, ctx) ==
    IF creation_alias(next, ctx) # "Ok"
    THEN creation_alias(next, ctx)
    ELSE creation_native_tokens(next, ctx)

\* <FoundryOutput as StateTransitionVerifier>::transition
transition(current, next, ctx) ==
    transition_inner(current, next, ctx.input_native_tokens, ctx.output_native_tokens)

\* A slip: tokens left among the outputs are not looked for.
Mutant_destruction(current, ctx) ==
    LET tid == token_id(current)
        input_tokens == get_or_default(ctx.input_native_tokens, tid)
        current_token_scheme == current.token_scheme
        minted_melted_diff == current_token_scheme.minted_tokens
                                  - current_token_scheme.melted_tokens
    IN  IF minted_melted_diff # input_tokens
        THEN "InconsistentNativeTokensFoundryDestruction"
        ELSE "Ok"
\* A slip: a destruction that consumes less than the accounted supply passes.
Mutant_destruction_partial(current, ctx) ==
    LET tid == token_id(current)
        input_tokens == get_or_default(ctx.input_native_tokens, tid)
        current_token_scheme == current.token_scheme
    IN  IF contains_key(ctx.output_native_tokens, tid)
        THEN "InconsistentNativeTokensFoundryDestruction"
        ELSE
        LET minted_melted_diff == current_token_scheme.minted_tokens
                                      - current_token_scheme.melted_tokens
        IN  IF minted_melted_diff < input_tokens
            THEN "InconsistentNativeTokensFoundryDestruction"
            ELSE "Ok"

\* <FoundryOutput as StateTransitionVerifier>::destruction
destruction(current, ctx) ==
    LET tid == token_id(current)
        input_tokens == get_or_default(ctx.input_native_tokens, tid)
        current_token_scheme == current.token_scheme
    IN  IF contains_key(ctx.output_native_tokens, tid)
        THEN "InconsistentNativeTokensFoundryDestruction"
        ELSE
        LET minted_melted_diff == current_token_scheme.minted_tokens
                                      - current_token_scheme.melted_tokens
        IN  IF minted_melted_diff # input_tokens
            THEN "InconsistentNativeTokensFoundryDestruction"
            ELSE "Ok"

(***************************************************************************)
(* Inputs of the verifier                                                  *)
(***************************************************************************)
\* The foundry outputs that are presented to the verifier. Amount, native
\* tokens and mutable features play no part in the verification.
VerifierFoundryOutputs ==
    { [amount |-> 1,
       native_tokens |-> <<>>,
       serial_number |-> sn,
       token_scheme |-> ts,
       unlock_conditions |-> <<ImmutableAliasAddressUnlockCondition(AliasAddress(a))>>,
       features |-> <<>>,
       immutable_features |-> imf] :
        sn \in {1, 2}, ts \in TokenSchemes, a \in AliasIds,
        imf \in {<<>>, <<MetadataFeature(<<1>>)>>} }

\* The TokenIds that occur as keys of the native token maps.
VerifierTokenIds == { token_id(o) : o \in { f \in VerifierFoundryOutputs : f.serial_number = 1 } }

\* Aggregate native token balances of one side of a transaction: no entry, or
\* one entry with a nonzero balance (native token amounts are never zero).
NativeTokenMaps ==
    {<<>>} \cup { (tid :> n) : tid \in VerifierTokenIds, n \in 1..MaxTokens }

\* An Alias output, reduced to the field the foundry verifier reads.
AliasOutput(foundry_counter) == [kind |-> "Alias", foundry_counter |-> foundry_counter]

\* Chain maps of one side of a transaction: no chain, or one alias chain.
ChainMaps ==
    {<<>>} \cup { (ChainId_from(a) :> AliasOutput(c)) : a \in AliasIds, c \in 0..2 }

NoOutput == [none |-> TRUE]

EmptyContext ==
    [input_native_tokens |-> <<>>, output_native_tokens |-> <<>>,
     input_chains |-> <<>>, output_chains |-> <<>>]

\* No SignatureUnlock at hand.
NoUnlock == [step |-> "none", value |-> None, bytes |-> <<>>, unpacked |-> None]

\* The ledger before the foundry is created: no foundry and no tokens of it.
NoLedger ==
    [status |-> "none", foundry |-> NoOutput, circulating |-> 0,
     unrecorded_burn |-> FALSE]

(***************************************************************************)
(* SpecVerifier                                                            *)
(***************************************************************************)
\* The builder variables while no builder is driven.
NoBuilder ==
    /\ self = [variant |-> "None"]
    /\ stage = "none"
    /\ given_params = None
    /\ finished = None
    /\ packed_bytes = <<>>
    /\ verify = FALSE
    /\ unpacked = None

InitVerifier ==
    /\ op = "idle"
    /\ current_state = NoOutput
    /\ next_state = NoOutput
    /\ context = EmptyContext
    /\ result = "None"
    /\ ledger = NoLedger
    /\ unlock = NoUnlock
    /\ NoBuilder

\* The semantic validation of a transaction that creates a foundry.
Creation ==
    /\ op = "idle"
    /\ \E ns \in VerifierFoundryOutputs, it \in NativeTokenMaps, ot \in NativeTokenMaps,
          ic \in ChainMaps, oc \in ChainMaps :
          LET ctx == [input_native_tokens |-> it, output_native_tokens |-> ot,
                      input_chains |-> ic, output_chains |-> oc]
          IN  /\ op' = "creation"
              /\ current_state' = NoOutput
              /\ next_state' = ns
              /\ context' = ctx
              /\ result' = creation(ns, ctx)
    /\ UNCHANGED <<builderVars, ledger, unlock>>

\* The semantic validation of a transaction that transitions a foundry.
Transition ==
    /\ op = "idle"
    /\ \E cs \in VerifierFoundryOutputs, ns \in VerifierFoundryOutputs,
          it \in NativeTokenMaps, ot \in NativeTokenMaps :
          LET ctx == [input_native_tokens |-> it, output_native_tokens |-> ot,
                      input_chains |-> <<>>, output_chains |-> <<>>]
          IN  /\ op' = "transition"
              /\ current_state' = cs
              /\ next_state' = ns
              /\ context' = ctx
              /\ result' = transition(cs, ns, ctx)
    /\ UNCHANGED <<builderVars, ledger, unlock>>

\* The semantic validation of a transaction that destroys a foundry.
Destruction ==
    /\ op = "idle"
    /\ \E cs \in VerifierFoundryOutputs, it \in NativeTokenMaps, ot \in NativeTokenMaps :
          LET ctx == [input_native_tokens |-> it, output_native_tokens |-> ot,
                      input_chains |-> <<>>, output_chains |-> <<>>]
          IN  /\ op' = "destruction"
              /\ current_state' = cs
              /\ next_state' = NoOutput
              /\ context' = ctx
              /\ result' = destruction(cs, ctx)
    /\ UNCHANGED <<builderVars, ledger, unlock>>

NextVerifier == Creation \/ Transition \/ Destruction

SpecVerifier == InitVerifier /\ [][NextVerifier]_vars

(***************************************************************************)
(* SpecLedger: the accepted transactions of one foundry, one after another *)
(***************************************************************************)
\* The aggregate balance of one TokenId on one side of a transaction; a
\* balance of zero has no entry.
TokenBalance(tid, balance) == IF balance = 0 THEN <<>> ELSE (tid :> balance)

InitLedger ==
    /\ op = "idle"
    /\ current_state = NoOutput
    /\ next_state = NoOutput
    /\ context = EmptyContext
    /\ result = "None"
    /\ ledger = NoLedger
    /\ unlock = NoUnlock
    /\ NoBuilder

\* A transaction that creates the foundry is accepted by creation(): no token of
\* the foundry exists yet, so none is among the inputs, and the tokens among
\* the outputs become the circulating supply.
LedgerCreation ==
    /\ ledger.status = "none"
    /\ \E ns \in VerifierFoundryOutputs, output_tokens \in 0..MaxTokens,
          ic \in ChainMaps, oc \in ChainMaps :
          LET ctx == [input_native_tokens |-> <<>>,
                      output_native_tokens |-> TokenBalance(token_id(ns), output_tokens),
                      input_chains |-> ic, output_chains |-> oc]
          IN  /\ creation(ns, ctx) = "Ok"
              /\ op' = "creation"
              /\ current_state' = NoOutput
              /\ next_state' = ns
              /\ context' = ctx
              /\ result' = "Ok"
              /\ ledger' = [status |-> "live", foundry |-> ns,
                            circulating |-> output_tokens, unrecorded_burn |-> FALSE]
    /\ UNCHANGED <<builderVars, unlock>>

\* A transaction that consumes part of the circulating tokens, produces its
\* outputs and transitions the foundry is accepted by transition().
LedgerTransition ==
    /\ ledger.status = "live"
    /\ \E ns \in VerifierFoundryOutputs, input_tokens \in 0..ledger.circulating,
          output_tokens \in 0..(MaxTokens + 1) :
          LET ctx == [input_native_tokens |->
                          TokenBalance(token_id(ledger.foundry), input_tokens),
                      output_native_tokens |->
                          TokenBalance(token_id(ledger.foundry), output_tokens),
                      input_chains |-> <<>>, output_chains |-> <<>>]
          IN  /\ transition(ledger.foundry, ns, ctx) = "Ok"
              /\ op' = "transition"
              /\ current_state' = ledger.foundry
              /\ next_state' = ns
              /\ context' = ctx
              /\ result' = "Ok"
              /\ ledger' =
                    [status |-> "live", foundry |-> ns,
                     circulating |-> ledger.circulating - input_tokens + output_tokens,
                     unrecorded_burn |->
                         \/ ledger.unrecorded_burn
                         \/ /\ input_tokens > output_tokens
                            /\ ns.token_scheme.melted_tokens
                                   - ledger.foundry.token_scheme.melted_tokens
                                 < input_tokens - output_tokens]
    /\ UNCHANGED <<builderVars, unlock>>

\* A transaction that consumes part of the circulating tokens and destroys the
\* foundry is accepted by destruction().
LedgerDestruction ==
    /\ ledger.status = "live"
    /\ \E input_tokens \in 0..ledger.circulating, output_tokens \in 0..MaxTokens :
          LET ctx == [input_native_tokens |->
                          TokenBalance(token_id(ledger.foundry), input_tokens),
                      output_native_tokens |->
                          TokenBalance(token_id(ledger.foundry), output_tokens),
                      input_chains |-> <<>>, output_chains |-> <<>>]
          IN  /\ destruction(ledger.foundry, ctx) = "Ok"
              /\ op' = "destruction"
              /\ current_state' = ledger.foundry
              /\ next_state' = NoOutput
              /\ context' = ctx
              /\ result' = "Ok"
              /\ ledger' = [ledger EXCEPT
                               !.status = "destroyed",
                               !.foundry = NoOutput,
                               !.circulating = @ - input_tokens + output_tokens]
    /\ UNCHANGED <<builderVars, unlock>>

NextLedger == LedgerCreation \/ LedgerTransition \/ LedgerDestruction

SpecLedger == InitLedger /\ [][NextLedger]_vars

(***************************************************************************)
(* Inputs of the builders                                                  *)
(***************************************************************************)
\* The amounts given to the builders: zero, an amount within the token supply
\* that covers the rent cost of some outputs and not of others, and one above
\* the token supply.
Amounts == {0, protocol_parameters.token_supply \div 4, protocol_parameters.token_supply + 1}

\* The amount policies: OutputBuilderAmount.
OutputBuilderAmounts ==
    { Amount(amount) : amount \in Amounts }
        \cup { MinimumStorageDeposit(rent_structure) : rent_structure \in RentStructures }

\* DelegationId / AccountId values; 0 is the null identifier.
DelegationIds == {0, 1}

AccountIds == {1, 2}

SerialNumbers == {0, 1}

BuilderTokenSchemes == { SimpleTokenScheme(1, 0, 2), SimpleTokenScheme(2, 1, 3) }

\* The TokenId of the foundry with the given alias and serial number.
BuilderTokenId(alias_id, serial_number) ==
    TokenId_from(FoundryId_build(AliasAddress(alias_id), serial_number, "Simple"))

\* The elements handed to the setters of each builder; each list holds two
\* elements of one kind (for add_ against replace_) and one kind that the
\* output does not allow.
NativeTokenInputs(variant) ==
    CASE variant = "Basic" ->
            { NativeToken(BuilderTokenId(1, 2), 1), NativeToken(BuilderTokenId(1, 1), 2) }
      [] variant = "Foundry" -> { NativeToken(BuilderTokenId(1, 1), 1) }
      [] OTHER -> {}

UnlockConditionInputs(variant) ==
    CASE variant = "Basic" ->
            { AddressUnlockCondition(Ed25519Address(1)),
              AddressUnlockCondition(Ed25519Address(2)),
              StorageDepositReturnUnlockCondition(Ed25519Address(2), 5),
              ImmutableAliasAddressUnlockCondition(AliasAddress(1)) }
      [] variant = "Foundry" ->
            { ImmutableAliasAddressUnlockCondition(AliasAddress(1)),
              ImmutableAliasAddressUnlockCondition(AliasAddress(2)),
              AddressUnlockCondition(Ed25519Address(1)) }
      [] variant = "Delegation" ->
            { AddressUnlockCondition(Ed25519Address(1)),
              AddressUnlockCondition(Ed25519Address(2)),
              TimelockUnlockCondition(1) }

FeatureInputs(variant) ==
    CASE variant = "Basic" ->
            { SenderFeature(Ed25519Address(1)), MetadataFeature(<<1>>),
              MetadataFeature(<<1, 2>>), IssuerFeature(Ed25519Address(1)) }
      [] variant = "Foundry" ->
            { MetadataFeature(<<1>>), MetadataFeature(<<1, 2>>),
              SenderFeature(Ed25519Address(1)) }
      [] OTHER -> {}

ImmutableFeatureInputs(variant) ==
    CASE variant = "Foundry" -> { MetadataFeature(<<3>>), IssuerFeature(Ed25519Address(1)) }
      [] variant = "Delegation" ->
            { IssuerFeature(Ed25519Address(1)), IssuerFeature(Ed25519Address(2)),
              MetadataFeature(<<3>>) }
      [] OTHER -> {}

\* The collections handed to the with_ setters: no two elements with one key.
Collections(inputs, Key(_)) ==
    { collection \in SUBSET inputs :
        \A a \in collection, b \in collection : Key(a) = Key(b) => a = b }

(***************************************************************************)
(* Spec: a builder is constructed, configured, finished, packed, unpacked  *)
(***************************************************************************)
\* The finish, packing and unpacking of the builder's variant.
Builder_finish(builder) ==
    CASE builder.variant = "Basic" -> BasicOutputBuilder_finish(builder)
      [] builder.variant = "Foundry" -> FoundryOutputBuilder_finish(builder)
      [] builder.variant = "Delegation" -> DelegationOutputBuilder_finish(builder)

Builder_finish_with_params(builder, params) ==
    CASE builder.variant = "Basic" -> BasicOutputBuilder_finish_with_params(builder, params)
      [] builder.variant = "Foundry" -> FoundryOutputBuilder_finish_with_params(builder, params)
      [] builder.variant = "Delegation" ->
            DelegationOutputBuilder_finish_with_params(builder, params)

\* PackableExt::pack_to_vec
pack_to_vec(variant, output) ==
    CASE variant = "Basic" -> BasicOutput_pack(output)
      [] variant = "Foundry" -> FoundryOutput_pack(output)
      [] variant = "Delegation" -> DelegationOutput_pack(output)

\* PackableExt::unpack_verified / unpack_unverified: the Result without the
\* rest of the input.
unpack(variant, bytes, VERIFY, visitor) ==
    LET unpacking == CASE variant = "Basic" -> BasicOutput_unpack(bytes, VERIFY, visitor)
                       [] variant = "Foundry" -> FoundryOutput_unpack(bytes, VERIFY, visitor)
                       [] variant = "Delegation" ->
                            DelegationOutput_unpack(bytes, VERIFY, visitor)
    IN  IF unpacking.ok THEN Ok(unpacking.value) ELSE Err(unpacking.error)

\* The builders as their constructors (new_with_amount,
\* new_with_minimum_storage_deposit) leave them.
NewBuilders ==
    { BasicOutputBuilder_new(amount) : amount \in OutputBuilderAmounts }
        \cup { FoundryOutputBuilder_new(amount, serial_number, token_scheme) :
                 amount \in OutputBuilderAmounts, serial_number \in SerialNumbers,
                 token_scheme \in BuilderTokenSchemes }
        \cup { DelegationOutputBuilder_new(amount, delegated_amount, delegation_id,
                                           validator_id) :
                 amount \in OutputBuilderAmounts, delegated_amount \in {10},
                 delegation_id \in DelegationIds, validator_id \in AccountIds }

\* The verifier variables while a builder is driven; no unlock is at hand.
NoVerifier ==
    /\ op = "none"
    /\ current_state = NoOutput
    /\ next_state = NoOutput
    /\ context = EmptyContext
    /\ result = "None"
    /\ ledger = NoLedger
    /\ unlock = NoUnlock

Init ==
    /\ self \in NewBuilders
    /\ stage = "building"
    /\ given_params = None
    /\ finished = None
    /\ packed_bytes = <<>>
    /\ verify = FALSE
    /\ unpacked = None
    /\ NoVerifier

\* What every setter leaves alone.
SetterUnchanged ==
    UNCHANGED <<stage, given_params, finished, packed_bytes, verify, unpacked, verifierVars, unlock>>

\* with_amount (the same in the three builders)
with_amount ==
    /\ stage = "building"
    /\ \E amount \in Amounts : self' = [self EXCEPT !.amount = Amount(amount)]
    /\ SetterUnchanged

\* with_minimum_storage_deposit (the same in the three builders)
with_minimum_storage_deposit ==
    /\ stage = "building"
    /\ \E rent_structure \in RentStructures :
          self' = [self EXCEPT !.amount = MinimumStorageDeposit(rent_structure)]
    /\ SetterUnchanged

\* BasicOutputBuilder::with_mana
with_mana ==
    /\ stage = "building"
    /\ self.variant = "Basic"
    /\ \E mana \in {0, 7} : self' = [self EXCEPT !.mana = mana]
    /\ SetterUnchanged

\* add_native_token (Basic and Foundry)
add_native_token ==
    /\ stage = "building"
    /\ \E native_token \in NativeTokenInputs(self.variant) :
          self' = [self EXCEPT !.native_tokens =
                                    BTreeSet_insert(@, native_token, NativeToken_key)]
    /\ SetterUnchanged

\* with_native_tokens (Basic and Foundry)
with_native_tokens ==
    /\ stage = "building"
    /\ self.variant \in {"Basic", "Foundry"}
    /\ \E native_tokens \in Collections(NativeTokenInputs(self.variant), NativeToken_key) :
          self' = [self EXCEPT !.native_tokens = native_tokens]
    /\ SetterUnchanged

\* FoundryOutputBuilder::with_serial_number
with_serial_number ==
    /\ stage = "building"
    /\ self.variant = "Foundry"
    /\ \E serial_number \in SerialNumbers :
          self' = [self EXCEPT !.serial_number = serial_number]
    /\ SetterUnchanged

\* FoundryOutputBuilder::with_token_scheme
with_token_scheme ==
    /\ stage = "building"
    /\ self.variant = "Foundry"
    /\ \E token_scheme \in BuilderTokenSchemes :
          self' = [self EXCEPT !.token_scheme = token_scheme]
    /\ SetterUnchanged

\* DelegationOutputBuilder::with_delegation_id
with_delegation_id ==
    /\ stage = "building"
    /\ self.variant = "Delegation"
    /\ \E delegation_id \in DelegationIds :
          self' = [self EXCEPT !.delegation_id = delegation_id]
    /\ SetterUnchanged

\* DelegationOutputBuilder::with_validator_id
with_validator_id ==
    /\ stage = "building"
    /\ self.variant = "Delegation"
    /\ \E validator_id \in AccountIds : self' = [self EXCEPT !.validator_id = validator_id]
    /\ SetterUnchanged

\* DelegationOutputBuilder::with_start_epoch
with_start_epoch ==
    /\ stage = "building"
    /\ self.variant = "Delegation"
    /\ \E start_epoch \in {0, 3} : self' = [self EXCEPT !.start_epoch = start_epoch]
    /\ SetterUnchanged

\* DelegationOutputBuilder::with_end_epoch
with_end_epoch ==
    /\ stage = "building"
    /\ self.variant = "Delegation"
    /\ \E end_epoch \in {0, 3} : self' = [self EXCEPT !.end_epoch = end_epoch]
    /\ SetterUnchanged
\* A slip: add_unlock_condition puts the new condition in the place of the one
\* of its kind.
Mutant_add_unlock_condition ==
    /\ stage = "building"
    /\ \E unlock_condition \in UnlockConditionInputs(self.variant) :
          self' = [self EXCEPT !.unlock_conditions =
                                    { other \in @ : other.kind # unlock_condition.kind }
                                        \cup {unlock_condition}]
    /\ SetterUnchanged

\* add_unlock_condition (the same in the three builders)
add_unlock_condition ==
    /\ stage = "building"
    /\ \E unlock_condition \in UnlockConditionInputs(self.variant) :
          self' = [self EXCEPT !.unlock_conditions =
                                    BTreeSet_insert(@, unlock_condition, UnlockCondition_key)]
    /\ SetterUnchanged

\* with_unlock_conditions (the same in the three builders)
with_unlock_conditions ==
    /\ stage = "building"
    /\ \E unlock_conditions \in
              Collections(UnlockConditionInputs(self.variant), UnlockCondition_key) :
          self' = [self EXCEPT !.unlock_conditions = unlock_conditions]
    /\ SetterUnchanged

\* replace_unlock_condition (the same in the three builders)
replace_unlock_condition ==
    /\ stage = "building"
    /\ \E unlock_condition \in UnlockConditionInputs(self.variant) :
          self' = [self EXCEPT !.unlock_conditions =
                                    BTreeSet_replace(@, unlock_condition, UnlockCondition_key)]
    /\ SetterUnchanged

\* clear_unlock_conditions (the same in the three builders)
clear_unlock_conditions ==
    /\ stage = "building"
    /\ self' = [self EXCEPT !.unlock_conditions = {}]
    /\ SetterUnchanged

\* add_feature (Basic and Foundry)
add_feature ==
    /\ stage = "building"
    /\ \E feature \in FeatureInputs(self.variant) :
          self' = [self EXCEPT !.features = BTreeSet_insert(@, feature, Feature_key)]
    /\ SetterUnchanged

\* with_features (Basic and Foundry)
with_features ==
    /\ stage = "building"
    /\ self.variant \in {"Basic", "Foundry"}
    /\ \E features \in Collections(FeatureInputs(self.variant), Feature_key) :
          self' = [self EXCEPT !.features = features]
    /\ SetterUnchanged

\* replace_feature (Basic and Foundry)
replace_feature ==
    /\ stage = "building"
    /\ \E feature \in FeatureInputs(self.variant) :
          self' = [self EXCEPT !.features = BTreeSet_replace(@, feature, Feature_key)]
    /\ SetterUnchanged

\* clear_features (Basic and Foundry)
clear_features ==
    /\ stage = "building"
    /\ self.variant \in {"Basic", "Foundry"}
    /\ self' = [self EXCEPT !.features = {}]
    /\ SetterUnchanged

\* add_immutable_feature (Foundry and Delegation)
add_immutable_feature ==
    /\ stage = "building"
    /\ \E immutable_feature \in ImmutableFeatureInputs(self.variant) :
          self' = [self EXCEPT !.immutable_features =
                                    BTreeSet_insert(@, immutable_feature, Feature_key)]
    /\ SetterUnchanged

\* with_immutable_features (Foundry and Delegation)
with_immutable_features ==
    /\ stage = "building"
    /\ self.variant \in {"Foundry", "Delegation"}
    /\ \E immutable_features \in
              Collections(ImmutableFeatureInputs(self.variant), Feature_key) :
          self' = [self EXCEPT !.immutable_features = immutable_features]
    /\ SetterUnchanged

\* replace_immutable_feature (Foundry and Delegation)
replace_immutable_feature ==
    /\ stage = "building"
    /\ \E immutable_feature \in ImmutableFeatureInputs(self.variant) :
          self' = [self EXCEPT !.immutable_features =
                                    BTreeSet_replace(@, immutable_feature, Feature_key)]
    /\ SetterUnchanged

\* clear_immutable_features (Foundry and Delegation)
clear_immutable_features ==
    /\ stage = "building"
    /\ self.variant \in {"Foundry", "Delegation"}
    /\ self' = [self EXCEPT !.immutable_features = {}]
    /\ SetterUnchanged
\* BasicOutputBuilder::with_sufficient_storage_deposit, called as the last
\* setter; an Err ends the chain of calls.
with_sufficient_storage_deposit ==
    /\ stage = "building"
    /\ self.variant = "Basic"
    /\ \E return_address \in {Ed25519Address(1), Ed25519Address(2)},
          rent_structure \in RentStructures,
          token_supply \in {protocol_parameters.token_supply,
                            protocol_parameters.token_supply \div 10} :
          LET deposited == BasicOutputBuilder_with_sufficient_storage_deposit(
                               self, return_address, rent_structure, token_supply)
          IN  IF deposited.ok
              THEN self' = deposited.value /\ stage' = "deposited"
              ELSE self' = self /\ stage' = "failed"
    /\ UNCHANGED <<given_params, finished, packed_bytes, verify, unpacked, verifierVars, unlock>>

\* finish()
finish ==
    /\ stage \in {"building", "deposited"}
    /\ stage' = "finished"
    /\ given_params' = None
    /\ finished' = Builder_finish(self)
    /\ UNCHANGED <<self, packed_bytes, verify, unpacked, verifierVars, unlock>>

\* finish_with_params(params)
finish_with_params ==
    /\ stage \in {"building", "deposited"}
    /\ \E params \in ValidationParamsSet :
          /\ stage' = "finished"
          /\ given_params' = params
          /\ finished' = Builder_finish_with_params(self, params)
    /\ UNCHANGED <<self, packed_bytes, verify, unpacked, verifierVars, unlock>>

\* The finished output is packed.
Pack ==
    /\ stage = "finished"
    /\ finished.ok
    /\ stage' = "packed"
    /\ packed_bytes' = pack_to_vec(self.variant, finished.value)
    /\ UNCHANGED <<self, given_params, finished, verify, unpacked, verifierVars, unlock>>

\* The bytes are unpacked under the protocol parameters, with or without
\* verification.
Unpack ==
    /\ stage = "packed"
    /\ \E VERIFY \in BOOLEAN :
          /\ stage' = "unpacked"
          /\ verify' = VERIFY
          /\ unpacked' = unpack(self.variant, packed_bytes, VERIFY, protocol_parameters)
    /\ UNCHANGED <<self, given_params, finished, packed_bytes, verifierVars, unlock>>
\* An output as another party packed it: the fields are those of the builder,
\* and no check of finish() was applied to them.
WireOutput(builder) ==
    [field \in DOMAIN builder \ {"variant"} |->
        CASE field = "amount" -> builder.amount.amount
          [] field = "native_tokens" -> NativeTokens_from_set(builder.native_tokens)
          [] field = "unlock_conditions" ->
                UnlockConditions_from_set(builder.unlock_conditions)
          [] field \in {"features", "immutable_features"} ->
                Features_from_set(builder[field])
          [] OTHER -> builder[field]]

\* Bytes that were packed elsewhere are received and unpacked under the
\* protocol parameters, with or without verification.
Receive ==
    /\ stage = "building"
    /\ self.amount.kind = "Amount"
    /\ \E VERIFY \in BOOLEAN :
          /\ stage' = "received"
          /\ packed_bytes' = pack_to_vec(self.variant, WireOutput(self))
          /\ verify' = VERIFY
          /\ unpacked' = unpack(self.variant, packed_bytes', VERIFY, protocol_parameters)
    /\ UNCHANGED <<self, given_params, finished, verifierVars, unlock>>

Next ==
    \/ with_amount
    \/ with_minimum_storage_deposit
    \/ with_mana
    \/ add_native_token
    \/ with_native_tokens
    \/ with_serial_number
    \/ with_token_scheme
    \/ with_delegation_id
    \/ with_validator_id
    \/ with_start_epoch
    \/ with_end_epoch
    \/ add_unlock_condition
    \/ with_unlock_conditions
    \/ replace_unlock_condition
    \/ clear_unlock_conditions
    \/ add_feature
    \/ with_features
    \/ replace_feature
    \/ clear_features
    \/ add_immutable_feature
    \/ with_immutable_features
    \/ replace_immutable_feature
    \/ clear_immutable_features
    \/ with_sufficient_storage_deposit
    \/ finish
    \/ finish_with_params
    \/ Pack
    \/ Unpack
    \/ Receive

Spec == Init /\ [][Next]_vars

(***************************************************************************)
(* SignatureUnlock and its packing                                         *)
(***************************************************************************)
\* The lengths of an Ed25519 public key and of an Ed25519 signature.
Ed25519PublicKey_LENGTH == 32

Ed25519Signature_SIGNATURE_LENGTH == 64

\* Ed25519Signature::KIND, the leading byte of a packed signature.
Ed25519Signature_KIND == 0

\* A byte string of one repeated byte.
Filled(byte, length) == [i \in 1..length |-> byte]

\* The public keys that rand_ed25519_public_key generates: byte strings that
\* are valid Ed25519 public keys.
ValidPublicKeys == { Filled(byte, Ed25519PublicKey_LENGTH) : byte \in {1, 2, 3} }

\* The 32-byte strings met on the wire, one of them no valid public key.
PublicKeyBytes == ValidPublicKeys \cup { Filled(7, Ed25519PublicKey_LENGTH) }

\* The 64-byte strings of the signatures.
SignatureBytes == { Filled(byte, Ed25519Signature_SIGNATURE_LENGTH) : byte \in {0, 9, 200} }

\* The leading bytes met on the wire: the known signature kind and others.
SignatureKindBytes == {0, 1, 2, 255}

\* Ed25519Signature
Ed25519Signature(public_key, signature) ==
    [kind |-> "Ed25519", public_key |-> public_key, signature |-> signature]

\* Ed25519Signature::pack
Ed25519Signature_pack(signature) == signature.public_key \o signature.signature

\* Ed25519Signature::unpack: the public key is validated.
Ed25519Signature_unpack(bytes) ==
    IF Len(bytes) < Ed25519PublicKey_LENGTH + Ed25519Signature_SIGNATURE_LENGTH
    THEN UnpackErr("UnexpectedEOF")
    ELSE
    LET public_key == SubSeq(bytes, 1, Ed25519PublicKey_LENGTH)
        signature == SubSeq(bytes, Ed25519PublicKey_LENGTH + 1,
                            Ed25519PublicKey_LENGTH + Ed25519Signature_SIGNATURE_LENGTH)
        rest == SubSeq(bytes,
                       Ed25519PublicKey_LENGTH + Ed25519Signature_SIGNATURE_LENGTH + 1,
                       Len(bytes))
    IN  IF public_key \notin ValidPublicKeys
        THEN UnpackErr("InvalidPublicKey")
        ELSE Unpacked(Ed25519Signature(public_key, signature), rest)

\* Error::InvalidSignatureKind(kind)
InvalidSignatureKind(kind) ==
    [ok |-> FALSE, value |-> None, error |-> "InvalidSignatureKind", rest |-> <<>>,
     kind |-> kind]

\* Signature::pack: the kind byte, then the signature.
Signature_pack(signature) == <<Ed25519Signature_KIND>> \o Ed25519Signature_pack(signature)

\* A slip: the kind byte is read and not compared.
Mutant_Signature_unpack(bytes) ==
    IF bytes = <<>> THEN UnpackErr("UnexpectedEOF")
    ELSE Ed25519Signature_unpack(Tail(bytes))

\* Signature::unpack: the kind byte selects the variant; a byte that is no
\* known kind is the error InvalidSignatureKind.
Signature_unpack(bytes) ==
    IF bytes = <<>> THEN UnpackErr("UnexpectedEOF")
    ELSE IF Head(bytes) = Ed25519Signature_KIND
    THEN Ed25519Signature_unpack(Tail(bytes))
    ELSE InvalidSignatureKind(Head(bytes))

\* SignatureUnlock::from(signature)
SignatureUnlock_from(signature) == [kind |-> "Signature", signature |-> signature]

\* SignatureUnlock::pack_to_vec: the unlock is the packed signature.
SignatureUnlock_pack_to_vec(signature_unlock) == Signature_pack(signature_unlock.signature)

\* SignatureUnlock::unpack_verified
SignatureUnlock_unpack_verified(bytes) ==
    Try(Signature_unpack(bytes), LAMBDA signature :
        Unpacked(SignatureUnlock_from(signature.value), signature.rest))

(***************************************************************************)
(* SpecUnlock: a SignatureUnlock is packed, or bytes are received, and the *)
(* bytes are unpacked                                                      *)
(***************************************************************************)
InitUnlock ==
    /\ op = "idle"
    /\ current_state = NoOutput
    /\ next_state = NoOutput
    /\ context = EmptyContext
    /\ result = "None"
    /\ ledger = NoLedger
    /\ unlock = NoUnlock
    /\ NoBuilder

\* SignatureUnlock::from(rand_signature())
FromSignature ==
    /\ unlock.step = "none"
    /\ \E public_key \in ValidPublicKeys, signature \in SignatureBytes :
          unlock' = [unlock EXCEPT
                         !.step = "created",
                         !.value = SignatureUnlock_from(
                                       Ed25519Signature(public_key, signature))]
    /\ UNCHANGED <<builderVars, verifierVars>>

\* pack_to_vec()
PackUnlock ==
    /\ unlock.step = "created"
    /\ unlock' = [unlock EXCEPT !.step = "packed",
                                !.bytes = SignatureUnlock_pack_to_vec(unlock.value)]
    /\ UNCHANGED <<builderVars, verifierVars>>

\* Bytes that no SignatureUnlock of the program was packed to: a leading byte,
\* followed by nothing or by a 32-byte and a 64-byte string.
ReceiveUnlock ==
    /\ unlock.step = "none"
    /\ \E kind \in SignatureKindBytes :
          \/ unlock' = [unlock EXCEPT !.step = "received", !.bytes = <<kind>>]
          \/ \E public_key \in PublicKeyBytes, signature \in SignatureBytes :
                unlock' = [unlock EXCEPT !.step = "received",
                                         !.bytes = <<kind>> \o public_key \o signature]
    /\ UNCHANGED <<builderVars, verifierVars>>

\* SignatureUnlock::unpack_verified(bytes, &())
UnpackUnlock ==
    /\ unlock.step \in {"packed", "received"}
    /\ unlock' = [unlock EXCEPT !.step = "unpacked",
                                !.unpacked = SignatureUnlock_unpack_verified(unlock.bytes)]
    /\ UNCHANGED <<builderVars, verifierVars>>

NextUnlock == FromSignature \/ PackUnlock \/ ReceiveUnlock \/ UnpackUnlock

SpecUnlock == InitUnlock /\ [][NextUnlock]_vars

(***************************************************************************)
(* Claims about the builders and the packing (checked under Spec)          *)
(***************************************************************************)
\* The bytes of a successfully finished output were unpacked with verification.
UnpackedVerified == stage = "unpacked" /\ verify

\* The unpacking succeeded and gave back the finished output.
RoundTrip == unpacked.ok /\ unpacked.value = finished.value

\* finish_with_params was called with the token supply of the protocol
\* parameters under which the bytes are unpacked.
FinishedWithProtocolParameters ==
    given_params = [token_supply |-> Some(protocol_parameters.token_supply)]

\* C1 as stated: whenever finish() succeeded on a Basic, Foundry or Delegation
\* builder, packing the output and unpacking the bytes with verification under
\* the protocol parameters succeeds and yields the finished output. finish()
\* does not verify the amount, the unpacking does: this statement is violated.
C1_Original ==
    (UnpackedVerified /\ given_params = None) => RoundTrip

\* C1: whenever finish_with_params(protocol_parameters) succeeded on a Basic,
\* Foundry or Delegation builder, packing the output and unpacking the bytes
\* with verification under the same protocol parameters succeeds and yields an
\* output equal to the finished one.
C1_RoundTrip ==
    (UnpackedVerified /\ FinishedWithProtocolParameters) => RoundTrip

\* A Foundry output with native tokens, features and immutable features that
\* finish_with_params accepted has been packed and unpacked with verification.
C1_Witness ==
    /\ UnpackedVerified
    /\ FinishedWithProtocolParameters
    /\ self.variant = "Foundry"
    /\ Len(finished.value.native_tokens) > 0
    /\ Len(finished.value.features) > 0
    /\ Len(finished.value.immutable_features) > 0
    /\ unpacked.ok

\* The rent cost of a finished output of the given variant.
Output_rent_cost_of(variant, output, rent_structure) ==
    IF variant = "Basic"
    THEN BasicOutput_rent_cost(output, rent_structure)
    ELSE Output_rent_cost(pack_to_vec(variant, output), rent_structure)

\* C2: whenever an output is finished from a Basic, Foundry or Delegation
\* builder whose amount policy is MinimumStorageDeposit(rent_structure), the
\* amount of the output is the rent cost of that output under rent_structure,
\* in whatever order the setters were called.
C2_MinimumStorageDeposit ==
    (/\ stage = "finished"
     /\ finished.ok
     /\ self.amount.kind = "MinimumStorageDeposit")
        => finished.value.amount
               = Output_rent_cost_of(self.variant, finished.value, self.amount.rent_structure)

\* A Basic output with mana, two native tokens, two unlock conditions and two
\* features was finished under the MinimumStorageDeposit policy.
C2_Witness ==
    /\ stage = "finished"
    /\ finished.ok
    /\ self.variant = "Basic"
    /\ self.amount.kind = "MinimumStorageDeposit"
    /\ finished.value.mana > 0
    /\ Len(finished.value.native_tokens) = 2
    /\ Len(finished.value.unlock_conditions) = 2
    /\ Len(finished.value.features) = 2
    /\ finished.value.amount > 0

(***************************************************************************)
(* Claims about the state transition verifier (checked under SpecVerifier) *)
(***************************************************************************)
\* The balances of the foundry's TokenId on the two sides of the transaction,
\* absent entries counting as 0.
InputBalance(foundry) ==
    IF token_id(foundry) \in DOMAIN context.input_native_tokens
    THEN context.input_native_tokens[token_id(foundry)] ELSE 0

OutputBalance(foundry) ==
    IF token_id(foundry) \in DOMAIN context.output_native_tokens
    THEN context.output_native_tokens[token_id(foundry)] ELSE 0

MintedDiff == next_state.token_scheme.minted_tokens - current_state.token_scheme.minted_tokens

MeltedDiff == next_state.token_scheme.melted_tokens - current_state.token_scheme.melted_tokens

\* Alias address, serial number, immutable features and maximum supply agree.
ImmutableFieldsUnchanged ==
    /\ current_state.unlock_conditions = next_state.unlock_conditions
    /\ current_state.serial_number = next_state.serial_number
    /\ current_state.immutable_features = next_state.immutable_features
    /\ current_state.token_scheme.maximum_supply = next_state.token_scheme.maximum_supply

CountersNonDecreasing == MintedDiff >= 0 /\ MeltedDiff >= 0

\* The transition passed the checks that precede the comparison of balances.
BalancesCompared == ImmutableFieldsUnchanged /\ CountersNonDecreasing

\* C3: with input balance < output balance (mint), a transition is accepted
\* only if the minted difference equals the token difference exactly and the
\* melted tokens are unchanged; a transition that reaches the comparison of
\* balances and misses either condition fails with InconsistentNativeTokensMint.
C3_MintExact ==
    (op = "transition" /\ InputBalance(next_state) < OutputBalance(next_state)) =>
        LET consistent ==
                /\ MintedDiff = OutputBalance(next_state) - InputBalance(next_state)
                /\ MeltedDiff = 0
        IN  /\ result = "Ok" => consistent
            /\ (BalancesCompared /\ ~consistent) => result = "InconsistentNativeTokensMint"

C3_Witness ==
    /\ op = "transition"
    /\ InputBalance(next_state) = 0
    /\ OutputBalance(next_state) = 1
    /\ current_state.token_scheme.minted_tokens = 1
    /\ next_state.token_scheme.minted_tokens = 2
    /\ result = "Ok"

\* C4: with equal input and output balances, a transition is accepted only if
\* minted and melted tokens are both unchanged; one that reaches the
\* comparison of balances with a changed counter fails with
\* InconsistentNativeTokensTransition.
C4_PlainTransition ==
    (op = "transition" /\ InputBalance(next_state) = OutputBalance(next_state)) =>
        LET unchanged == MintedDiff = 0 /\ MeltedDiff = 0
        IN  /\ result = "Ok" => unchanged
            /\ (BalancesCompared /\ ~unchanged)
                   => result = "InconsistentNativeTokensTransition"

C4_Witness ==
    /\ op = "transition"
    /\ InputBalance(next_state) = 1
    /\ OutputBalance(next_state) = 1
    /\ MintedDiff = 0
    /\ MeltedDiff = 0
    /\ next_state.token_scheme.minted_tokens = 2
    /\ result = "Ok"

\* C5 as stated: with input balance > output balance (melt/burn), a
\* transition is accepted only if the melted difference is at most the token
\* difference and melted_tokens differs between current and next state.
C5_Original ==
    (op = "transition" /\ InputBalance(next_state) > OutputBalance(next_state)
        /\ result = "Ok") =>
        /\ MeltedDiff <= InputBalance(next_state) - OutputBalance(next_state)
        /\ MeltedDiff # 0

\* C5, amended: with input balance > output balance (melt/burn), a transition
\* is accepted only if the melted difference is at most the token difference
\* and minted and melted tokens do not both change (melted_tokens may stay
\* unchanged: a pure burn); one that reaches the comparison of balances and
\* misses either condition fails with InconsistentNativeTokensMeltBurn.
C5_MeltBurn ==
    (op = "transition" /\ InputBalance(next_state) > OutputBalance(next_state)) =>
        LET consistent ==
                /\ MeltedDiff <= InputBalance(next_state) - OutputBalance(next_state)
                /\ ~ (MeltedDiff # 0 /\ MintedDiff # 0)
        IN  /\ result = "Ok" => consistent
            /\ (BalancesCompared /\ ~consistent)
                   => result = "InconsistentNativeTokensMeltBurn"

\* A melt of one token out of two burned: the melted difference stays below
\* the token difference.
C5_Witness ==
    /\ op = "transition"
    /\ InputBalance(next_state) = 2
    /\ OutputBalance(next_state) = 0
    /\ MeltedDiff = 1
    /\ MintedDiff = 0
    /\ result = "Ok"

\* C6: a transition whose states differ in alias address, serial number,
\* immutable features or maximum supply fails with MutatedImmutableField;
\* every accepted transition leaves the four unchanged.
C6_ImmutableFields ==
    op = "transition" =>
        /\ ~ImmutableFieldsUnchanged => result = "MutatedImmutableField"
        /\ result = "Ok" => ImmutableFieldsUnchanged

C6_Witness ==
    /\ op = "transition"
    /\ current_state.serial_number # next_state.serial_number
    /\ current_state.unlock_conditions = next_state.unlock_conditions
    /\ MintedDiff = 0
    /\ MeltedDiff = 0
    /\ InputBalance(next_state) = OutputBalance(next_state)
    /\ result = "MutatedImmutableField"

\* C7: with the immutable fields equal, a transition that decreases minted or
\* melted tokens fails with NonMonotonicallyIncreasingNativeTokens; in every
\* accepted transition both counters are non-decreasing.
C7_Monotonic ==
    op = "transition" =>
        /\ (ImmutableFieldsUnchanged /\ ~CountersNonDecreasing)
               => result = "NonMonotonicallyIncreasingNativeTokens"
        /\ result = "Ok" => CountersNonDecreasing

C7_Witness ==
    /\ op = "transition"
    /\ ImmutableFieldsUnchanged
    /\ MintedDiff = 0
    /\ MeltedDiff < 0
    /\ result = "NonMonotonicallyIncreasingNativeTokens"

\* The owning alias of the created foundry, on either side of the transaction.
OwningAliasChain == <<"ChainId", "Alias", next_state.unlock_conditions[1].address.id>>

OwningAliasPresent ==
    /\ OwningAliasChain \in DOMAIN context.input_chains
    /\ OwningAliasChain \in DOMAIN context.output_chains

SerialNumberInRange ==
    /\ context.input_chains[OwningAliasChain].foundry_counter < next_state.serial_number
    /\ next_state.serial_number <= context.output_chains[OwningAliasChain].foundry_counter

\* C8: a creation is accepted only if the owning alias is an Alias output of
\* both the input and the output chains (else MissingAliasForFoundry) and
\* input foundry_counter < serial_number <= output foundry_counter (else
\* InconsistentFoundrySerialNumber).
C8_CreationAlias ==
    op = "creation" =>
        /\ result = "Ok" => (OwningAliasPresent /\ SerialNumberInRange)
        /\ ~OwningAliasPresent => result = "MissingAliasForFoundry"
        /\ (OwningAliasPresent /\ ~SerialNumberInRange)
               => result = "InconsistentFoundrySerialNumber"

C8_Witness ==
    /\ op = "creation"
    /\ OwningAliasPresent
    /\ context.input_chains[OwningAliasChain].foundry_counter = 1
    /\ next_state.serial_number = 2
    /\ context.output_chains[OwningAliasChain].foundry_counter = 2
    /\ result = "Ok"

\* C9: a creation that passed the alias checks is accepted only if the input
\* native tokens hold no entry for the foundry's TokenId, the output balance
\* equals minted_tokens and melted_tokens is zero; any violation fails with
\* InconsistentNativeTokensFoundryCreation.
C9_CreationNativeTokens ==
    (op = "creation" /\ OwningAliasPresent /\ SerialNumberInRange) =>
        LET consistent ==
                /\ token_id(next_state) \notin DOMAIN context.input_native_tokens
                /\ OutputBalance(next_state) = next_state.token_scheme.minted_tokens
                /\ next_state.token_scheme.melted_tokens = 0
        IN  /\ result = "Ok" => consistent
            /\ ~consistent => result = "InconsistentNativeTokensFoundryCreation"

C9_Witness ==
    /\ op = "creation"
    /\ OutputBalance(next_state) = 2
    /\ next_state.token_scheme.minted_tokens = 2
    /\ next_state.token_scheme.melted_tokens = 0
    /\ context.input_native_tokens # <<>>
    /\ result = "Ok"

\* C10: a destruction is accepted if and only if the output native tokens hold
\* no entry for the foundry's TokenId and minted_tokens - melted_tokens equals
\* the input balance; otherwise it fails with
\* InconsistentNativeTokensFoundryDestruction.
C10_Destruction ==
    op = "destruction" =>
        LET consistent ==
                /\ token_id(current_state) \notin DOMAIN context.output_native_tokens
                /\ current_state.token_scheme.minted_tokens
                       - current_state.token_scheme.melted_tokens
                   = InputBalance(current_state)
        IN  /\ result = "Ok" <=> consistent
            /\ result # "Ok" => result = "InconsistentNativeTokensFoundryDestruction"

C10_Witness ==
    /\ op = "destruction"
    /\ current_state.token_scheme.minted_tokens = 2
    /\ current_state.token_scheme.melted_tokens = 1
    /\ InputBalance(current_state) = 1
    /\ context.output_native_tokens # <<>>
    /\ result = "Ok"

(***************************************************************************)
(* Claims about the builders: what finish() and unpack() accept            *)
(***************************************************************************)
\* The kinds of the elements of a collection of the builder.
KindsOf(elements) == { element.kind : element \in elements }

\* The unlock condition that names who controls an output of the variant.
ControllingUnlockCondition(variant) ==
    IF variant = "Foundry" THEN "ImmutableAliasAddress" ELSE "Address"

\* C11: finish() fails with MissingAddressUnlockCondition for every builder
\* that holds no controlling unlock condition (no Address condition for Basic
\* and Delegation, no ImmutableAliasAddress condition for a Foundry with a
\* nonzero serial number), whatever other conditions, features and fields the
\* builder holds.
C11_MissingAddress ==
    (/\ stage = "finished"
     /\ ControllingUnlockCondition(self.variant) \notin KindsOf(self.unlock_conditions)
     /\ (self.variant = "Foundry" => self.serial_number # 0))
    => finished = Err("MissingAddressUnlockCondition")

\* A Basic builder that holds other conditions, one of them not allowed, and no
\* Address condition was finished.
C11_Witness ==
    /\ stage = "finished"
    /\ given_params = None
    /\ self.variant = "Basic"
    /\ KindsOf(self.unlock_conditions) = {"StorageDepositReturn", "ImmutableAliasAddress"}
    /\ self.features # {}
    /\ finished = Err("MissingAddressUnlockCondition")

\* C12: FoundryOutputBuilder::finish fails with InvalidFoundryZeroSerialNumber
\* whenever the serial number of the builder is 0, whatever the order of the
\* setter calls and whatever the other fields hold, missing or disallowed
\* unlock conditions and features included.
C12_ZeroSerialNumber ==
    (/\ stage = "finished"
     /\ self.variant = "Foundry"
     /\ self.serial_number = 0)
    => finished = Err("InvalidFoundryZeroSerialNumber")

\* A Foundry builder with serial number 0, no ImmutableAliasAddress condition,
\* a disallowed condition and a disallowed feature was finished.
C12_Witness ==
    /\ stage = "finished"
    /\ given_params = None
    /\ self.variant = "Foundry"
    /\ self.serial_number = 0
    /\ KindsOf(self.unlock_conditions) = {"Address"}
    /\ "Sender" \in KindsOf(self.features)
    /\ finished = Err("InvalidFoundryZeroSerialNumber")

\* C13: every FoundryOutput obtained from a successful finish() or from a
\* successful verified unpack has a serial number other than 0.
C13_Original ==
    self.variant = "Foundry" =>
        /\ (stage = "finished" /\ finished.ok) => finished.value.serial_number # 0
        /\ (stage \in {"unpacked", "received"} /\ verify /\ unpacked.ok)
               => unpacked.value.serial_number # 0

\* The allow-lists as the claim states them.
AllowedKinds ==
    [Basic |-> [unlock_conditions |-> {"Address", "StorageDepositReturn", "Timelock",
                                       "Expiration"},
                features |-> {"Sender", "Metadata", "Tag"},
                immutable_features |-> {}],
     Delegation |-> [unlock_conditions |-> {"Address"},
                     features |-> {},
                     immutable_features |-> {"Issuer"}],
     Foundry |-> [unlock_conditions |-> {"ImmutableAliasAddress"},
                  features |-> {"Metadata"},
                  immutable_features |-> {"Metadata"}]]

\* The kinds in a collection of the builder that the claim's allow-list of the
\* variant leaves out.
DisallowedKinds(builder, field) ==
    IF field \in DOMAIN builder
    THEN KindsOf(builder[field]) \ AllowedKinds[builder.variant][field]
    ELSE {}

\* C14: finish() succeeds only if the kind of every unlock condition and of
\* every feature of the builder lies in the allow-list of the variant; a
\* builder that passes the earlier checks (serial number, controlling unlock
\* condition) and holds a kind outside the lists fails with
\* DisallowedUnlockCondition, or with DisallowedFeature when only a feature or
\* immutable feature is outside.
C14_AllowLists ==
    stage = "finished" =>
        /\ finished.ok =>
              /\ DisallowedKinds(self, "unlock_conditions") = {}
              /\ DisallowedKinds(self, "features") = {}
              /\ DisallowedKinds(self, "immutable_features") = {}
        /\ (/\ ControllingUnlockCondition(self.variant) \in KindsOf(self.unlock_conditions)
            /\ (self.variant = "Foundry" => self.serial_number # 0))
           => /\ DisallowedKinds(self, "unlock_conditions") # {}
                    => finished = Err("DisallowedUnlockCondition")
              /\ (/\ DisallowedKinds(self, "unlock_conditions") = {}
                  /\ DisallowedKinds(self, "features")
                        \cup DisallowedKinds(self, "immutable_features") # {})
                    => finished = Err("DisallowedFeature")

\* A Basic builder with an Address condition, an allowed StorageDepositReturn
\* condition, an allowed feature and the disallowed Issuer feature was finished.
C14_Witness ==
    /\ stage = "finished"
    /\ given_params = None
    /\ self.variant = "Basic"
    /\ KindsOf(self.unlock_conditions) = {"Address", "StorageDepositReturn"}
    /\ KindsOf(self.features) = {"Sender", "Issuer"}
    /\ finished = Err("DisallowedFeature")

\* No two elements of one kind in any collection of the builder.
AtMostOnePerKind ==
    \A field \in {"unlock_conditions", "features", "immutable_features"} :
        field \in DOMAIN self =>
            \A a \in self[field], b \in self[field] : a.kind = b.kind => a = b

\* A step of add_*: the element of a kind that is present stays and the new one
\* is dropped; an element of a new kind joins the collection.
FirstWins(field, inputs) ==
    \E element \in inputs :
        self'[field] = IF element.kind \in KindsOf(self[field])
                       THEN self[field]
                       ELSE self[field] \cup {element}

\* A step of replace_*: the new element is in the collection, the element of
\* its kind that was there is gone, the other elements stay.
LastWins(field, inputs) ==
    \E element \in inputs :
        /\ element \in self'[field]
        /\ self'[field] \ {element}
              = { other \in self[field] : other.kind # element.kind }

\* C15: add_* with an element whose kind is already present leaves the existing
\* element in place (first wins), replace_* leaves the new element in place
\* (last wins), and after any sequence of setter calls a collection of the
\* builder holds at most one element of each kind.
C15_FirstWinsLastWins ==
    /\ []AtMostOnePerKind
    /\ [][/\ add_unlock_condition
                => FirstWins("unlock_conditions", UnlockConditionInputs(self.variant))
          /\ add_feature => FirstWins("features", FeatureInputs(self.variant))
          /\ add_immutable_feature
                => FirstWins("immutable_features", ImmutableFeatureInputs(self.variant))
          /\ replace_unlock_condition
                => LastWins("unlock_conditions", UnlockConditionInputs(self.variant))
          /\ replace_feature => LastWins("features", FeatureInputs(self.variant))
          /\ replace_immutable_feature
                => LastWins("immutable_features", ImmutableFeatureInputs(self.variant))]_vars

\* A builder under construction holds an unlock condition and a feature of
\* kinds for which the setters are handed a second element.
C15_Witness ==
    /\ stage = "building"
    /\ \E element \in UnlockConditionInputs(self.variant) :
          element \notin self.unlock_conditions
              /\ element.kind \in KindsOf(self.unlock_conditions)
    /\ "features" \in DOMAIN self
    /\ \E element \in FeatureInputs(self.variant) :
          element \notin self.features /\ element.kind \in KindsOf(self.features)

\* C16: finish_with_params fails with the amount-out-of-range error exactly
\* when finish() would succeed, the parameters carry a token supply and the
\* amount of the output lies outside the range that supply allows (above it);
\* in every other case, without a token supply in particular, it returns
\* exactly what finish() returns.
C16_FinishWithParams ==
    (stage = "finished" /\ given_params # None) =>
        LET plain == Builder_finish(self)
            out_of_range ==
                /\ plain.ok
                /\ given_params.token_supply # None
                /\ plain.value.amount > given_params.token_supply.value
        IN  /\ finished = Err("InvalidOutputAmount") <=> out_of_range
            /\ ~out_of_range => finished = plain
            /\ given_params.token_supply = None => finished = plain

\* finish_with_params was handed a token supply below the amount of a
\* Delegation builder that finish() accepts.
C16_Witness ==
    /\ stage = "finished"
    /\ given_params # None
    /\ given_params.token_supply # None
    /\ self.variant = "Delegation"
    /\ Builder_finish(self).ok
    /\ Builder_finish(self).value.amount > given_params.token_supply.value
    /\ finished = Err("InvalidOutputAmount")

\* The StorageDepositReturn conditions of an output.
StorageDepositReturns(output) ==
    { output.unlock_conditions[i] : i \in
        { j \in DOMAIN output.unlock_conditions :
            output.unlock_conditions[j].kind = "StorageDepositReturn" } }

\* C17: for a BasicOutputBuilder whose fixed amount a is below its rent cost
\* (a = 0 and a builder that already holds a StorageDepositReturn condition
\* included), with_sufficient_storage_deposit(return_address, rent_structure,
\* token_supply) yields a builder whose finished output has an amount equal to
\* its own rent cost under rent_structure and exactly one StorageDepositReturn
\* condition, with the given return address and the return amount
\* rent cost - a.
C17_SufficientStorageDeposit ==
    (stage = "building" /\ self.variant = "Basic" /\ self.amount.kind = "Amount") =>
        \A return_address \in {Ed25519Address(1), Ed25519Address(2)},
           rent_structure \in RentStructures,
           token_supply \in {protocol_parameters.token_supply,
                             protocol_parameters.token_supply \div 10} :
            LET deposited == BasicOutputBuilder_with_sufficient_storage_deposit(
                                 self, return_address, rent_structure, token_supply)
                output == BasicOutputBuilder_finish(deposited.value)
            IN  (/\ self.amount.amount < BasicOutputBuilder_rent_cost(self, rent_structure)
                 /\ deposited.ok
                 /\ output.ok)
                => /\ output.value.amount = BasicOutput_rent_cost(output.value, rent_structure)
                   /\ StorageDepositReturns(output.value)
                         = { StorageDepositReturnUnlockCondition(
                                 return_address,
                                 BasicOutput_rent_cost(output.value, rent_structure)
                                     - self.amount.amount) }

\* with_sufficient_storage_deposit has raised the nonzero amount of a builder
\* that finish() accepts and has set the return amount to the difference.
C17_Witness ==
    /\ stage = "deposited"
    /\ self.amount.kind = "Amount"
    /\ self.amount.amount > protocol_parameters.token_supply \div 4
    /\ self.features # {}
    /\ StorageDepositReturnUnlockCondition(
           Ed25519Address(1),
           self.amount.amount - protocol_parameters.token_supply \div 4)
         \in self.unlock_conditions
    /\ BasicOutputBuilder_finish(self).ok

\* The received output breaks a rule that finish_with_params enforces: its
\* amount is above the token supply, its controlling unlock condition is
\* missing, or a kind lies outside the allow-lists.
BreaksRule ==
    \/ self.amount.amount > protocol_parameters.token_supply
    \/ ControllingUnlockCondition(self.variant) \notin KindsOf(self.unlock_conditions)
    \/ DisallowedKinds(self, "unlock_conditions") # {}
    \/ DisallowedKinds(self, "features") # {}
    \/ DisallowedKinds(self, "immutable_features") # {}

\* C18: unpacking with VERIFY set fails when the amount is out of range, the
\* controlling unlock condition is missing, or an unlock condition or feature
\* kind lies outside the allow-list; with the flag unset none of these checks
\* is applied and the same well-formed bytes unpack successfully, to the
\* output that was packed.
C18_VerifyFlag ==
    stage = "received" =>
        /\ (verify /\ BreaksRule) => ~unpacked.ok
        /\ ~verify => unpacked = Ok(WireOutput(self))

\* Bytes of a Delegation output with an amount above the token supply, no
\* Address condition and a disallowed immutable feature were unpacked without
\* verification.
C18_Witness ==
    /\ stage = "received"
    /\ ~verify
    /\ self.variant = "Delegation"
    /\ self.amount.amount > protocol_parameters.token_supply
    /\ KindsOf(self.unlock_conditions) = {"Timelock"}
    /\ "Metadata" \in KindsOf(self.immutable_features)
    /\ unpacked.ok

\* C19: every output that finish_with_params accepts under the protocol
\* parameters, and every output that a verified unpack accepts, has an amount
\* of at least its rent cost under the rent structure of those parameters.
C19_Original ==
    /\ (stage = "finished" /\ FinishedWithProtocolParameters /\ finished.ok)
           => finished.value.amount
                 >= Output_rent_cost_of(self.variant, finished.value,
                                        protocol_parameters.rent_structure)
    /\ (stage \in {"unpacked", "received"} /\ verify /\ unpacked.ok)
           => unpacked.value.amount
                 >= Output_rent_cost_of(self.variant, unpacked.value,
                                        protocol_parameters.rent_structure)

\* The accessors of an output that unwrap its controlling unlock condition
\* return a value: address() of a Basic or Delegation output, alias_address(),
\* id() and token_id() of a Foundry output.
AccessorsReturn(variant, output) ==
    /\ ControllingUnlockCondition(variant)
          \in { output.unlock_conditions[i].kind : i \in DOMAIN output.unlock_conditions }
    /\ IF variant = "Foundry"
       THEN /\ alias_address(output) # [kind |-> "panic"]
            /\ id(output) = FoundryId_build(
                                immutable_alias_address(output.unlock_conditions).address,
                                output.serial_number, output.token_scheme.kind)
            /\ token_id(output) = TokenId_from(id(output))
       ELSE BasicOutput_address(output) # [kind |-> "panic"]

\* C20: for every output obtained from a successful finish() or from a
\* successful verified unpack the controlling unlock condition is present, so
\* address() / alias_address(), and id(), token_id(), chain_id() and unlock()
\* that call them, never reach the panic of the unwrap.
C20_NoPanic ==
    /\ (stage = "finished" /\ finished.ok) => AccessorsReturn(self.variant, finished.value)
    /\ (stage \in {"unpacked", "received"} /\ verify /\ unpacked.ok)
           => AccessorsReturn(self.variant, unpacked.value)

\* Received bytes of a Foundry output passed the verified unpack, and its
\* alias_address() is the alias of its condition.
C20_Witness ==
    /\ stage = "received"
    /\ verify
    /\ unpacked.ok
    /\ self.variant = "Foundry"
    /\ alias_address(unpacked.value) = AliasAddress(2)

(***************************************************************************)
(* Claims about the accessors, the conversions and the frame of the        *)
(* builders                                                                *)
(***************************************************************************)
\* C25: with_sufficient_storage_deposit returns Ok with the builder entirely
\* unchanged (amount policy, mana, native tokens, unlock conditions, features)
\* when the amount policy is MinimumStorageDeposit or the fixed amount is
\* already at least the current rent cost; no StorageDepositReturn condition
\* is added and no error is raised, whatever return_address and token_supply
\* are.
C25_Unchanged ==
    (stage = "building" /\ self.variant = "Basic") =>
        \A return_address \in {Ed25519Address(1), Ed25519Address(2)},
           rent_structure \in RentStructures,
           token_supply \in {protocol_parameters.token_supply,
                             protocol_parameters.token_supply \div 10} :
            (\/ self.amount.kind = "MinimumStorageDeposit"
             \/ /\ self.amount.kind = "Amount"
                /\ self.amount.amount >= BasicOutputBuilder_rent_cost(self, rent_structure))
            => BasicOutputBuilder_with_sufficient_storage_deposit(
                   self, return_address, rent_structure, token_supply) = Ok(self)

\* with_sufficient_storage_deposit was called on a builder with the
\* MinimumStorageDeposit policy that holds mana, native tokens, features and
\* no StorageDepositReturn condition, and on return the builder still holds
\* none.
C25_Witness ==
    /\ stage = "deposited"
    /\ self.amount.kind = "MinimumStorageDeposit"
    /\ self.mana > 0
    /\ self.native_tokens # {}
    /\ self.features # {}
    /\ KindsOf(self.unlock_conditions) = {"Address"}

\* The Basic output at hand: the one finish() returned, or the one unpacked from
\* received bytes (verified or not, so that outputs without an Address
\* condition are among them).
BasicOutputAtHand ==
    IF stage = "finished" THEN finished ELSE unpacked

\* C23: simple_deposit_address returns Some(address) exactly when the unlock
\* conditions of the output consist of a single Address condition and the
\* output has no native tokens and no features, whatever its mana; in every
\* other case it returns None.
C23_SimpleDeposit ==
    (/\ self.variant = "Basic"
     /\ stage \in {"finished", "received"}
     /\ BasicOutputAtHand.ok)
    => LET output == BasicOutputAtHand.value
           kinds == { output.unlock_conditions[i].kind :
                        i \in DOMAIN output.unlock_conditions }
       IN  IF /\ Len(output.unlock_conditions) = 1
              /\ kinds = {"Address"}
              /\ Len(output.native_tokens) = 0
              /\ Len(output.features) = 0
           THEN \E i \in DOMAIN output.unlock_conditions :
                   simple_deposit_address(output)
                       = Some(output.unlock_conditions[i].address)
           ELSE simple_deposit_address(output) = None

\* A finished Basic output with mana, a single Address condition, no native
\* tokens and no features: a simple deposit to address 2.
C23_Witness ==
    /\ stage = "finished"
    /\ finished.ok
    /\ self.variant = "Basic"
    /\ finished.value.mana > 0
    /\ simple_deposit_address(finished.value) = Some(Ed25519Address(2))

\* The builder constructed from a reference to an output of the variant.
Builder_from(variant, output) ==
    CASE variant = "Basic" -> BasicOutputBuilder_from(output)
      [] variant = "Foundry" -> FoundryOutputBuilder_from(output)
      [] variant = "Delegation" -> DelegationOutputBuilder_from(output)

\* C30: for every Basic, Delegation or Foundry output produced by a successful
\* finish, the builder constructed from a reference to it, finished without a
\* further change, succeeds and yields an output equal to it; the builder holds
\* the fixed amount and the fields of the output.
C30_RebuildIdentity ==
    (stage = "finished" /\ finished.ok) =>
        /\ Builder_finish(Builder_from(self.variant, finished.value)) = Ok(finished.value)
        /\ Builder_from(self.variant, finished.value).amount = Amount(finished.value.amount)

\* A Foundry output with native tokens, features and immutable features, its
\* amount computed from the MinimumStorageDeposit policy, was finished.
C30_Witness ==
    /\ stage = "finished"
    /\ finished.ok
    /\ self.variant = "Foundry"
    /\ self.amount.kind = "MinimumStorageDeposit"
    /\ Len(finished.value.native_tokens) > 0
    /\ Len(finished.value.features) > 0
    /\ Len(finished.value.immutable_features) > 0
    /\ Builder_from(self.variant, finished.value) # self

\* The ids of the outputs that create a delegation.
OutputIds == {1, 2, 3}

\* C22: delegation_id_non_null(output_id) returns the stored delegation id
\* unchanged when it is not null and the id derived from the hash of output_id
\* when it is null; applying or_from_output_id to the result with any other
\* output id returns the same result.
C22_DelegationIdNonNull ==
    (stage = "finished" /\ finished.ok /\ self.variant = "Delegation") =>
        \A output_id \in OutputIds :
            LET returned == delegation_id_non_null(finished.value, output_id)
            IN  /\ finished.value.delegation_id # 0
                      => returned = finished.value.delegation_id
                /\ finished.value.delegation_id = 0
                      => returned = DelegationId_from(output_id)
                /\ \A other \in OutputIds : or_from_output_id(returned, other) = returned

\* A Delegation output with the null delegation id was finished.
C22_Witness ==
    /\ stage = "finished"
    /\ finished.ok
    /\ self.variant = "Delegation"
    /\ finished.value.delegation_id = 0
    /\ delegation_id_non_null(finished.value, 2) # 0

(***************************************************************************)
(* Claims about the verifier: the counters, the order of the errors        *)
(***************************************************************************)
\* C26: whenever transition_inner accepts a transition whose input balance of
\* the foundry's TokenId exceeds the output balance (melt/burn), minted_tokens
\* is unchanged between current and next state; minted_tokens changes only in
\* an accepted mint transition.
C26_Original ==
    (op = "transition" /\ result = "Ok") =>
        /\ InputBalance(next_state) > OutputBalance(next_state) => MintedDiff = 0
        /\ MintedDiff # 0 => InputBalance(next_state) < OutputBalance(next_state)

\* C29: transition_inner reports its errors in a fixed precedence, whatever the
\* token balances are: a change of alias address, serial number, immutable
\* features or maximum_supply yields MutatedImmutableField; otherwise a
\* decrease of minted_tokens or melted_tokens yields
\* NonMonotonicallyIncreasingNativeTokens; only then is one of
\* InconsistentNativeTokensMint / Transition / MeltBurn reported, and which one
\* depends on the comparison of the input and output balances alone.
C29_ErrorPrecedence ==
    op = "transition" =>
        IF ~ImmutableFieldsUnchanged
        THEN result = "MutatedImmutableField"
        ELSE IF ~CountersNonDecreasing
        THEN result = "NonMonotonicallyIncreasingNativeTokens"
        ELSE result \in
                {"Ok",
                 CASE InputBalance(next_state) < OutputBalance(next_state)
                          -> "InconsistentNativeTokensMint"
                   [] InputBalance(next_state) = OutputBalance(next_state)
                          -> "InconsistentNativeTokensTransition"
                   [] OTHER -> "InconsistentNativeTokensMeltBurn"}

\* A transition that changes the maximum supply, lowers minted_tokens and
\* burns a token: the first of the three errors is reported.
C29_Witness ==
    /\ op = "transition"
    /\ current_state.token_scheme.maximum_supply # next_state.token_scheme.maximum_supply
    /\ current_state.serial_number = next_state.serial_number
    /\ current_state.unlock_conditions = next_state.unlock_conditions
    /\ current_state.immutable_features = next_state.immutable_features
    /\ MintedDiff < 0
    /\ InputBalance(next_state) > OutputBalance(next_state)
    /\ result = "MutatedImmutableField"

(***************************************************************************)
(* Claims about the sequence of transactions of one foundry                *)
(***************************************************************************)
\* The accounted supply of the foundry on the ledger, minted_tokens -
\* melted_tokens, less the circulating supply of its TokenId.
AccountingGap ==
    ledger.foundry.token_scheme.minted_tokens
        - ledger.foundry.token_scheme.melted_tokens
        - ledger.circulating

\* C27: along any sequence of transactions of one foundry that starts with an
\* accepted creation and goes on with accepted transitions, the accounted
\* supply minted_tokens - melted_tokens is at every step at least the
\* circulating supply of the TokenId, and the gap between the two never
\* decreases.
C27_AccountedSupply ==
    /\ [](ledger.status = "live" => AccountingGap >= 0)
    /\ [][(ledger.status = "live" /\ ledger'.status = "live")
              => AccountingGap' >= AccountingGap]_vars

\* After a creation and a transition that burned a token without recording it,
\* tokens still circulate and the accounted supply is above them.
C27_Witness ==
    /\ ledger.status = "live"
    /\ op = "transition"
    /\ ledger.unrecorded_burn
    /\ ledger.circulating > 0
    /\ AccountingGap > 0

\* C28: after any sequence of accepted creation and transitions of one
\* foundry, an accepted destruction leaves no circulating token of its
\* TokenId: it is accepted only when the transaction consumes the entire
\* circulating supply, and never once an earlier melt/burn transition burned
\* more tokens than it recorded in melted_tokens.
C28_Destruction ==
    /\ [](ledger.status = "destroyed"
             => ledger.circulating = 0 /\ ~ledger.unrecorded_burn)
    /\ [][(ledger.status = "live" /\ ledger'.status = "destroyed")
              => /\ get_or_default(context'.input_native_tokens, token_id(ledger.foundry))
                       = ledger.circulating
                 /\ context'.output_native_tokens = <<>>]_vars

\* A foundry that minted after its creation and melted part of the supply was
\* destroyed.
C28_Witness ==
    /\ ledger.status = "destroyed"
    /\ current_state.token_scheme.melted_tokens > 0
    /\ current_state.token_scheme.minted_tokens
           - current_state.token_scheme.melted_tokens > 0

\* C21: converting a valid Basic or Foundry output, one that
\* finish_with_params accepted under the protocol parameters, to its dto and
\* back succeeds and yields an output equal to the original, both without
\* params (try_from_dto) and with the protocol parameters
\* (try_from_dto_with_params).
C21_ToFromDto ==
    (/\ stage = "finished"
     /\ finished.ok
     /\ FinishedWithProtocolParameters
     /\ self.variant \in {"Basic", "Foundry"}) =>
        LET dto == OutputDto_from(self.variant, finished.value)
        IN  /\ try_from_dto(self.variant, dto) = Ok(finished.value)
            /\ try_from_dto_with_params(
                   self.variant, dto,
                   [token_supply |-> Some(protocol_parameters.token_supply)])
                   = Ok(finished.value)

\* A Foundry output with an amount of several digits, features and immutable
\* features was accepted under the protocol parameters; its dto carries the
\* amount as the string of its digits.
C21_Witness ==
    /\ stage = "finished"
    /\ finished.ok
    /\ FinishedWithProtocolParameters
    /\ self.variant = "Foundry"
    /\ finished.value.amount >= 10
    /\ Len(finished.value.features) > 0
    /\ Len(finished.value.immutable_features) > 0
    /\ OutputDto_from("Foundry", finished.value).amount = <<2, 5, 0>>

====
